---- MODULE Spec2Model ----
(***************************************************************************)
(* A model of the subsentry ledger (db/repo.py) and of its detection       *)
(* engine (core/engine.py, core/normalize.py, core/recurring.py,           *)
(* core/anomalies.py, core/stats.py).                                      *)
(*                                                                         *)
(* Representation.                                                         *)
(*   - A Python str is a sequence of one-character strings.                *)
(*   - A datetime is an integer number of minutes.                         *)
(*   - A float amount is an integer number of thousandths (mills) of the   *)
(*     currency unit; medians and MADs are exact rationals kept as         *)
(*     integers over a fixed denominator (see median, mad).                *)
(*   - NULL (None) in an integer column is 0; SQLite rowids start at 1.    *)
(*   - A table is a set of records; a row id is the SQLite rowid, which    *)
(*     for an INTEGER PRIMARY KEY without the AUTOINCREMENT keyword is     *)
(*     max(rowid) + 1 at insertion time.                                   *)
(***************************************************************************)
EXTENDS Integers, Sequences, FiniteSets, TLC

(***************************************************************************)
(* Generic helpers on sequences and sets.                                  *)
(***************************************************************************)
Max2(a, b) == IF a >= b THEN a ELSE b

Min2(a, b) == IF a <= b THEN a ELSE b

Abs(x) == IF x < 0 THEN -x ELSE x

Take(s, n) == SubSeq(s, 1, Min2(n, Len(s)))

Drop(s, n) == SubSeq(s, n + 1, Len(s))

Reverse(s) == [i \in 1..Len(s) |-> s[Len(s) + 1 - i]]

SetMax(S) == IF S = {} THEN 0 ELSE CHOOSE x \in S : \A y \in S : y <= x

\* the elements of a set of integers as a sequence
RECURSIVE RowsByValue(_)
RowsByValue(S) ==
    IF S = {} THEN <<>>
    ELSE LET x == CHOOSE v \in S : \A w \in S : v <= w IN <<x>> \o RowsByValue(S \ {x})

\* the next rowid of a table: max(rowid) + 1, or 1 for an empty table
NextId(rows) == SetMax({r.id : r \in rows}) + 1

(***************************************************************************)
(* Characters.                                                             *)
(***************************************************************************)
LowerChars == <<"a", "b", "c", "d", "e", "f", "g", "h", "i", "j", "k", "l", "m",
                "n", "o", "p", "q", "r", "s", "t", "u", "v", "w", "x", "y", "z">>

UpperChars == <<"A", "B", "C", "D", "E", "F", "G", "H", "I", "J", "K", "L", "M",
                "N", "O", "P", "Q", "R", "S", "T", "U", "V", "W", "X", "Y", "Z">>

DigitChars == <<"0", "1", "2", "3", "4", "5", "6", "7", "8", "9">>

\* the characters of the model in ASCII order (the order of SQLite's BINARY collation)
AsciiOrder == <<"\t", " ", "#", "&", "'", "*", "-", ".">> \o DigitChars \o <<"<", ">">>
              \o UpperChars \o <<"_">> \o LowerChars

IsIn(c, chars) == \E i \in 1..Len(chars) : chars[i] = c

IndexOf(c, chars) == CHOOSE i \in 1..Len(chars) : chars[i] = c

CharCode(c) == IndexOf(c, AsciiOrder)

IsSpace(c) == c \in {" ", "\t"}

IsDigit(c) == IsIn(c, DigitChars)

IsUpperAZ(c) == IsIn(c, UpperChars)

\* \w of the re module
IsWordChar(c) == IsIn(c, UpperChars) \/ IsIn(c, LowerChars) \/ IsDigit(c) \/ c = "_"

UpperChar(c) == IF IsIn(c, LowerChars) THEN UpperChars[IndexOf(c, LowerChars)] ELSE c

\* str.upper()
Upper(s) == [i \in 1..Len(s) |-> UpperChar(s[i])]

RECURSIVE LStrip(_)
LStrip(s) == IF s # <<>> /\ IsSpace(Head(s)) THEN LStrip(Tail(s)) ELSE s

RECURSIVE RStrip(_)
RStrip(s) == IF s # <<>> /\ IsSpace(s[Len(s)]) THEN RStrip(SubSeq(s, 1, Len(s) - 1)) ELSE s

\* str.strip()
Strip(s) == RStrip(LStrip(s))

\* s.startswith(p)
StartsWith(s, p) == Len(p) <= Len(s) /\ SubSeq(s, 1, Len(p)) = p

\* p in s
Contains(s, p) == \E i \in 0..(Len(s) - Len(p)) : SubSeq(s, i + 1, i + Len(p)) = p

\* the order of two strings under the BINARY collation
RECURSIVE StrLess(_, _)
StrLess(a, b) ==
    IF b = <<>> THEN FALSE
    ELSE IF a = <<>> THEN TRUE
    ELSE IF Head(a) # Head(b) THEN CharCode(Head(a)) < CharCode(Head(b))
    ELSE StrLess(Tail(a), Tail(b))

\* the number of leading characters of s that satisfy the class test
RECURSIVE SpanSpaces(_)
SpanSpaces(s) == IF s # <<>> /\ IsSpace(Head(s)) THEN 1 + SpanSpaces(Tail(s)) ELSE 0

RECURSIVE SpanDigits(_)
SpanDigits(s) == IF s # <<>> /\ IsDigit(Head(s)) THEN 1 + SpanDigits(Tail(s)) ELSE 0

RECURSIVE SpanStars(_)
SpanStars(s) == IF s # <<>> /\ Head(s) = "*" THEN 1 + SpanStars(Tail(s)) ELSE 0

(***************************************************************************)
(* core/normalize.py                                                       *)
(***************************************************************************)
StrPAYPAL == <<"P", "A", "Y", "P", "A", "L">>

StrCARD == <<"C", "A", "R", "D">>

StrDotCOM == <<".", "C", "O", "M">>

StrNETFLIX == <<"N", "E", "T", "F", "L", "I", "X">>

StrSPOTIFY == <<"S", "P", "O", "T", "I", "F", "Y">>

StrAMAZON == <<"A", "M", "A", "Z", "O", "N">>

\* the length of a match of PAYPAL_PREFIX, (?i)\bPAYPAL\b\s*\*\s*, at the head
\* of s, or 0; prevWord says whether the character before s is a word character
PaypalMatchLen(s, prevWord) ==
    IF prevWord \/ Len(s) < 6 \/ Upper(SubSeq(s, 1, 6)) # StrPAYPAL THEN 0
    ELSE LET rest == Drop(s, 6)
             k == SpanSpaces(rest)
         IN  IF Len(rest) > k /\ rest[k + 1] = "*"
             THEN 6 + k + 1 + SpanSpaces(Drop(rest, k + 1))
             ELSE 0

\* PAYPAL_PREFIX.sub("", s): every match, left to right, is removed
RECURSIVE SubPaypalPrefix(_, _)
SubPaypalPrefix(s, prevWord) ==
    IF s = <<>> THEN <<>>
    ELSE LET n == PaypalMatchLen(s, prevWord)
         IN  IF n > 0 THEN SubPaypalPrefix(Drop(s, n), FALSE)
             ELSE <<Head(s)>> \o SubPaypalPrefix(Tail(s), IsWordChar(Head(s)))

\* re.sub(r"[^A-Z0-9\s&.-]", " ", s)
KeepChar(c) == IsUpperAZ(c) \/ IsDigit(c) \/ IsSpace(c) \/ c \in {"&", ".", "-"}

SubOtherChars(s) == [i \in 1..Len(s) |-> IF KeepChar(s[i]) THEN s[i] ELSE " "]

\* \d{2,6}\s*$ matches the whole of s
DigitsToEnd(s) ==
    LET nd == SpanDigits(s)
    IN  nd >= 2 /\ nd <= 6 /\ SpanSpaces(Drop(s, nd)) = Len(s) - nd

\* CARD_SUFFIX, (?i)\s*(?:\*+\d{2,6}|CARD\s*\d{2,6})\s*$, matches the whole of s
CardSuffixMatches(s) ==
    LET u == Drop(s, SpanSpaces(s))
        st == SpanStars(u)
    IN  \/ st >= 1 /\ DigitsToEnd(Drop(u, st))
        \/ /\ Len(u) >= 4
           /\ Upper(SubSeq(u, 1, 4)) = StrCARD
           /\ LET v == Drop(u, 4) IN DigitsToEnd(Drop(v, SpanSpaces(v)))

\* CARD_SUFFIX.sub("", s): the leftmost match runs to the end and is removed
SubCardSuffix(s) ==
    LET starts == {i \in 0..(Len(s) - 1) : CardSuffixMatches(Drop(s, i))}
    IN  IF starts = {} THEN s
        ELSE Take(s, CHOOSE i \in starts : \A j \in starts : i <= j)

\* s.replace(".COM", "")
RECURSIVE RemoveDotCom(_)
RemoveDotCom(s) ==
    IF s = <<>> THEN <<>>
    ELSE IF StartsWith(s, StrDotCOM) THEN RemoveDotCom(Drop(s, 4))
    ELSE <<Head(s)>> \o RemoveDotCom(Tail(s))

\* MULTISPACE.sub(" ", s)
RECURSIVE SubMultispace(_)
SubMultispace(s) ==
    IF s = <<>> THEN <<>>
    ELSE IF IsSpace(Head(s)) THEN <<" ">> \o SubMultispace(Drop(s, SpanSpaces(s)))
    ELSE <<Head(s)>> \o SubMultispace(Tail(s))

\* the normalization with the card-suffix step before the cleanup of the other
\* characters
CleanCardSuffixFirst(raw) ==
    LET s1 == Upper(Strip(raw))
        s2 == SubPaypalPrefix(s1, FALSE)
        s3 == SubCardSuffix(s2)
        s4 == SubOtherChars(s3)
        s5 == RemoveDotCom(s4)
    IN  Strip(SubMultispace(s5))

clean_merchant(raw) ==
    LET s1 == Upper(Strip(raw))
        s2 == SubPaypalPrefix(s1, FALSE)
        s3 == SubOtherChars(s2)
        s4 == SubCardSuffix(s3)
        s5 == RemoveDotCom(s4)
    IN  Strip(SubMultispace(s5))

HintMaxLen == 255

canonical_hint(cleaned) ==
    IF Contains(cleaned, StrNETFLIX) THEN StrNETFLIX
    ELSE IF Contains(cleaned, StrSPOTIFY) THEN StrSPOTIFY
    ELSE IF Contains(cleaned, StrAMAZON) THEN StrAMAZON
    ELSE Take(cleaned, HintMaxLen)

(***************************************************************************)
(* rapidfuzz: fuzz.ratio and process.extractOne (engine.py:6, 52).         *)
(* fuzz.ratio(a, b) is the normalized indel similarity on a 0..100 scale,  *)
(* 100 * 2 * LCS(a, b) / (len(a) + len(b)), and 100 for two empty strings. *)
(* A score is kept as the exact fraction <<numerator, denominator>>.       *)
(***************************************************************************)
RECURSIVE LCS(_, _)
LCS(a, b) ==
    IF a = <<>> \/ b = <<>> THEN 0
    ELSE IF Head(a) = Head(b) THEN 1 + LCS(Tail(a), Tail(b))
    ELSE Max2(LCS(Tail(a), b), LCS(a, Tail(b)))

fuzz_ratio(a, b) ==
    IF Len(a) + Len(b) = 0 THEN <<100, 1>> ELSE <<200 * LCS(a, b), Len(a) + Len(b)>>

\* comparisons of two scores, and of a score with an integer
ScoreGreater(x, y) == x[1] * y[2] > y[1] * x[2]

ScoreAtLeast(x, n) == x[1] >= n * x[2]

\* process.extractOne(query, choices, scorer=fuzz.ratio): the index of the
\* first choice with the highest score, 0 for an empty list of choices
RECURSIVE ExtractFrom(_, _, _, _)
ExtractFrom(query, choices, i, best) ==
    IF i > Len(choices) THEN best
    ELSE IF best = 0 \/ ScoreGreater(fuzz_ratio(query, choices[i]), fuzz_ratio(query, choices[best]))
         THEN ExtractFrom(query, choices, i + 1, i)
         ELSE ExtractFrom(query, choices, i + 1, best)

extractOne(query, choices) == ExtractFrom(query, choices, 1, 0)

(***************************************************************************)
(* core/stats.py.  For a list of integers in some unit u, median is        *)
(* returned in units of u/2 and mad in units of u/40000, so that the mean  *)
(* of the two middle elements and the scale factor 1.4826 stay exact.      *)
(***************************************************************************)
SortedInts(x) == SortSeq(x, LAMBDA a, b : a < b)

\* the median that takes the upper of the two middle elements, doubled
MedianUpper(x) ==
    IF x = <<>> THEN 0
    ELSE LET s == SortedInts(x)
         IN  2 * s[(Len(s) \div 2) + 1]

\* the median of x, doubled
median(x) ==
    IF x = <<>> THEN 0
    ELSE LET s == SortedInts(x)
             n == Len(s)
         IN  IF n % 2 = 1 THEN 2 * s[(n + 1) \div 2] ELSE s[n \div 2] + s[n \div 2 + 1]

\* scale = 1.4826, times 10000
MadScale == 14826

\* the median absolute deviation of x times the scale, in units of u/40000
mad(x) ==
    IF x = <<>> THEN 0
    ELSE LET med == median(x)
             dev == [i \in 1..Len(x) |-> Abs(2 * x[i] - med)]
         IN  median(dev) * MadScale

\* robust_z(x, med, mad_val) >= z, for x in units of u, med in u/2, mad_val in
\* u/40000 and an integer z; unitsPerOne is the number of units u in 1.0, the
\* denominator used when mad_val is not above 1e-9
RobustZAtLeast(x, med, mad_val, z, unitsPerOne) ==
    IF mad_val > 0 THEN (2 * x - med) * 20000 >= z * mad_val
    ELSE (2 * x - med) >= z * 2 * unitsPerOne

\* abs(robust_z(x, med, mad_val)) >= z
AbsRobustZAtLeast(x, med, mad_val, z, unitsPerOne) ==
    IF mad_val > 0 THEN Abs(2 * x - med) * 20000 >= z * mad_val
    ELSE Abs(2 * x - med) >= z * 2 * unitsPerOne

(***************************************************************************)
(* core/recurring.py                                                       *)
(***************************************************************************)
MinutesPerDay == 1440

MillsPerUnit == 1000

CANDIDATE_PERIODS == <<7, 14, 28, 30, 31, 365>>

\* the nearest candidate with ties resolved in favour of the last in the list
NearestPeriodLast(days2) ==
    LET dist(i) == Abs(2 * CANDIDATE_PERIODS[i] - days2)
        best == CHOOSE i \in 1..Len(CANDIDATE_PERIODS) :
                    /\ \A j \in 1..Len(CANDIDATE_PERIODS) : dist(i) <= dist(j)
                    /\ \A j \in (i + 1)..Len(CANDIDATE_PERIODS) : dist(j) > dist(i)
    IN  CANDIDATE_PERIODS[best]

\* min(CANDIDATE_PERIODS, key=lambda p: abs(p - days)), days given doubled:
\* the first candidate at the smallest distance
_nearest_period(days2) ==
    LET dist(i) == Abs(2 * CANDIDATE_PERIODS[i] - days2)
        best == CHOOSE i \in 1..Len(CANDIDATE_PERIODS) :
                    /\ \A j \in 1..Len(CANDIDATE_PERIODS) : dist(i) <= dist(j)
                    /\ \A j \in 1..(i - 1) : dist(j) > dist(i)
    IN  CANDIDATE_PERIODS[best]

RECURSIVE GCD(_, _)
GCD(a, b) == IF b = 0 THEN a ELSE GCD(b, a % b)

\* the fraction n / d in lowest terms
Frac(n, d) == LET g == GCD(n, d) IN <<n \div g, d \div g>>

\* sorted(zip(dates, amounts), key=lambda x: x[0]): a stable sort by date
SortPairsByDate(pairs) ==
    LET idx == SortSeq([i \in 1..Len(pairs) |-> i],
                       LAMBDA i, j : pairs[i][1] < pairs[j][1] \/ (pairs[i][1] = pairs[j][1] /\ i < j))
    IN  [k \in 1..Len(pairs) |-> pairs[idx[k]]]

\* x * k as <<high, low>> in base 65536, for 0 <= x < 2^31 and 0 <= k < 2^14
WideMul(x, k) ==
    LET lo == (x % 65536) * k
        hi == (x \div 65536) * k
    IN  <<hi + (lo \div 65536), lo % 65536>>

WideLeq(p, q) == p[1] < q[1] \/ (p[1] = q[1] /\ p[2] <= q[2])

\* 0.55 * gap_consistency + 0.45 * amt_stability <= pct / 100, that is
\* 45 * c * b <= (pct * b - 55 * a) * d for the fractions a / b and c / d
WeightedAtMost(confidence, pct) ==
    LET a == confidence.gap_consistency[1]
        b == confidence.gap_consistency[2]
        c == confidence.amt_stability[1]
        d == confidence.amt_stability[2]
    IN  /\ pct * b - 55 * a >= 0
        /\ WideLeq(WideMul(c, 45 * b), WideMul(d, pct * b - 55 * a))

\* 0.55 * gap_consistency + 0.45 * amt_stability >= pct / 100
WeightedAtLeast(confidence, pct) ==
    LET a == confidence.gap_consistency[1]
        b == confidence.gap_consistency[2]
        c == confidence.amt_stability[1]
        d == confidence.amt_stability[2]
    IN  \/ pct * b - 55 * a <= 0
        \/ WideLeq(WideMul(d, pct * b - 55 * a), WideMul(c, 45 * b))

\* float(max(0.0, min(1.0, confidence)))
Clamp01(confidence) ==
    IF ~WeightedAtMost(confidence, 100)
    THEN [gap_consistency |-> <<1, 1>>, amt_stability |-> <<1, 1>>]
    ELSE IF ~WeightedAtLeast(confidence, 0)
    THEN [gap_consistency |-> <<0, 1>>, amt_stability |-> <<0, 1>>]
    ELSE confidence

\* detect_recurring without the clamp and with the ratio of gap_consistency
\* upside down
DetectRecurringUnclamped(dates, amounts, min_points) ==
    IF Len(dates) < min_points THEN [none |-> TRUE]
    ELSE LET pairs == SortPairsByDate([i \in 1..Len(dates) |-> <<dates[i], amounts[i]>>])
             ds == [i \in 1..Len(pairs) |-> pairs[i][1]]
             am == [i \in 1..Len(pairs) |-> pairs[i][2]]
             gaps == [i \in 1..(Len(ds) - 1) |-> (ds[i + 1] - ds[i]) \div MinutesPerDay]
         IN  IF gaps = <<>> THEN [none |-> TRUE]
             ELSE LET gap_med == median(gaps)
                      gap_mad == mad(gaps)
                      period == _nearest_period(gap_med)
                      tol == IF period \in {7, 14, 28, 30, 31} THEN 3 ELSE 10
                      inliers == SelectSeq(gaps, LAMBDA g : Abs(g - period) <= tol)
                      a_med == median(am)
                      a_mad == mad(am)
                      D == Abs(a_med) * 20000 + 40
                  IN  [none |-> FALSE,
                       period_days |-> period,
                       amount_median |-> a_med,
                       amount_mad |-> a_mad,
                       gap_median |-> gap_med,
                       gap_mad |-> gap_mad,
                       confidence |-> [gap_consistency |-> Frac(Len(gaps), Max2(1, Len(inliers))),
                                       amt_stability |-> Frac(D, D + a_mad)],
                       next_expected_at |-> ds[Len(ds)] + period * MinutesPerDay]

\* detect_recurring(dates, amounts, min_points); None is the record [none |-> TRUE].
\* confidence = clamp(0.55 * gap_consistency + 0.45 * amt_stability, 0, 1) is kept as
\* two exact fractions: gap_consistency = inliers / gaps and
\* amt_stability = D / (D + a_mad) with D = abs(a_med) + 1e-6, where D and a_mad are
\* counted in units of 1 / 40000 mill (a_med doubled * 20000 + 40).
detect_recurring(dates, amounts, min_points) ==
    IF Len(dates) < min_points THEN [none |-> TRUE]
    ELSE LET pairs == SortPairsByDate([i \in 1..Len(dates) |-> <<dates[i], amounts[i]>>])
             ds == [i \in 1..Len(pairs) |-> pairs[i][1]]
             am == [i \in 1..Len(pairs) |-> pairs[i][2]]
             gaps == [i \in 1..(Len(ds) - 1) |-> (ds[i + 1] - ds[i]) \div MinutesPerDay]
         IN  IF gaps = <<>> THEN [none |-> TRUE]
             ELSE LET gap_med == median(gaps)
                      gap_mad == mad(gaps)
                      period == _nearest_period(gap_med)
                      tol == IF period \in {7, 14, 28, 30, 31} THEN 3 ELSE 10
                      inliers == SelectSeq(gaps, LAMBDA g : Abs(g - period) <= tol)
                      a_med == median(am)
                      a_mad == mad(am)
                      D == Abs(a_med) * 20000 + 40
                  IN  [none |-> FALSE,
                       period_days |-> period,
                       amount_median |-> a_med,
                       amount_mad |-> a_mad,
                       gap_median |-> gap_med,
                       gap_mad |-> gap_mad,
                       confidence |-> Clamp01([gap_consistency |-> Frac(Len(inliers), Max2(1, Len(gaps))),
                                               amt_stability |-> Frac(D, D + a_mad)]),
                       next_expected_at |-> ds[Len(ds)] + period * MinutesPerDay]

(***************************************************************************)
(* privacy/encryption.py.  A key is a one-character string and NoKey is    *)
(* None.  encrypt_str(key, s) is "enc:" followed by the key and s: only    *)
(* the same key gives s back, any other key makes AESGCM.decrypt raise.    *)
(***************************************************************************)
NoKey == "-"

StrEncPrefix == <<"e", "n", "c", ":">>

StrEncrypted == <<"<", "e", "n", "c", "r", "y", "p", "t", "e", "d", ">">>

encrypt_str(key, plaintext) == StrEncPrefix \o <<key>> \o plaintext

maybe_encrypt(key, s) == IF key = NoKey THEN s ELSE encrypt_str(key, s)

\* decrypt_str(key, ciphertext): [raised |-> TRUE] when decoding or decryption raises
decrypt_str(key, ciphertext) ==
    IF ~StartsWith(ciphertext, StrEncPrefix) THEN [raised |-> FALSE, text |-> ciphertext]
    ELSE LET blob == Drop(ciphertext, 4)
         IN  IF blob # <<>> /\ Head(blob) = key
             THEN [raised |-> FALSE, text |-> Tail(blob)]
             ELSE [raised |-> TRUE, text |-> <<>>]

maybe_decrypt(key, s) ==
    IF ~StartsWith(s, StrEncPrefix) THEN [raised |-> FALSE, text |-> s]
    ELSE IF key = NoKey THEN [raised |-> FALSE, text |-> StrEncrypted]
    ELSE decrypt_str(key, s)

(***************************************************************************)
(* db/models.py and db/repo.py: the tables and the Repo operations.        *)
(* Columns the engine never reads (currency, account_id, created_at,       *)
(* the statement period of a source file) are left out.                    *)
(***************************************************************************)
\* Transaction
TxnRow(id, posted_at, amount, description_raw, source_file_id, merchant_id, hash_dedupe) ==
    [id |-> id, posted_at |-> posted_at, amount |-> amount,
     description_raw |-> description_raw, source_file_id |-> source_file_id,
     merchant_id |-> merchant_id, hash_dedupe |-> hash_dedupe]

\* f"{amount:.2f}": the sign and the amount rounded to hundredths (amounts are in
\* mills; an amount whose last digit is 5 is not used, as its rounding depends on
\* the binary value of the float)
Fmt2(amount) == <<amount < 0, (Abs(amount) + 5) \div 10>>

DedupeBytes == 200

\* a fingerprint of the description as given, neither stripped nor upper-cased
RawHash(posted_at, amount, description_raw) ==
    <<posted_at, Fmt2(amount), Take(description_raw, DedupeBytes)>>

\* Repo._dedupe_hash: sha256 is taken to be injective on what it is fed
_dedupe_hash(posted_at, amount, description_raw) ==
    <<posted_at, Fmt2(amount), Take(Upper(Strip(description_raw)), DedupeBytes)>>

\* the rows of a table as a sequence in ascending rowid order
RECURSIVE RowsById(_)
RowsById(rows) ==
    IF rows = {} THEN <<>>
    ELSE LET r == CHOOSE x \in rows : \A y \in rows : x.id <= y.id
         IN  <<r>> \o RowsById(rows \ {r})

\* ORDER BY posted_at DESC; rows of equal posted_at come in descending rowid
\* order (a backward scan of the index on posted_at)
PostedAtDesc(a, b) == a.posted_at > b.posted_at \/ (a.posted_at = b.posted_at /\ a.id > b.id)

\* Repo.list_transactions
list_transactions(transactions) == SortSeq(RowsById(transactions), PostedAtDesc)

\* Repo.list_transactions_for_merchant
list_transactions_for_merchant(transactions, merchant_id) ==
    SortSeq(RowsById({t \in transactions : t.merchant_id = merchant_id}), PostedAtDesc)

\* Repo.list_merchants: ORDER BY canonical_name
list_merchants(merchants) ==
    SortSeq(RowsById(merchants), LAMBDA a, b : StrLess(a.canonical_name, b.canonical_name))

\* Repo.list_aliases: no ORDER BY, rowid order
list_aliases(aliases) == RowsById(aliases)

\* Repo.insert_transactions, one row of the loop.  st.pending are the rows flushed
\* in the open transaction; a flush that violates uq_transactions_hash raises, and
\* Session.rollback() then discards everything flushed since the last commit.
\* st.log is the trail of the loop: the row and the state after its iteration.
InsertRow(st, source_file_id, r, key) ==
    LET h == _dedupe_hash(r.posted_at, r.amount, r.description_raw)
        present == st.committed \cup st.pending
        txn == TxnRow(NextId(present), r.posted_at, r.amount,
                      maybe_encrypt(key, r.description_raw), source_file_id, 0, h)
        dup == \E t \in present : t.hash_dedupe = h
        after == IF dup
                 THEN [st EXCEPT !.pending = {}, !.skipped = @ + 1]
                 ELSE [st EXCEPT !.pending = @ \cup {txn}, !.inserted = @ + 1]
    IN  [after EXCEPT !.log = Append(@, [row |-> r, inserted |-> after.inserted,
                                         skipped |-> after.skipped,
                                         committed |-> after.committed,
                                         pending |-> after.pending])]

RECURSIVE InsertRows(_, _, _, _)
InsertRows(st, source_file_id, rows, key) ==
    IF rows = <<>> THEN st
    ELSE InsertRows(InsertRow(st, source_file_id, Head(rows), key), source_file_id, Tail(rows), key)

\* Repo.insert_transactions: the table after the final commit, the pair
\* (inserted, skipped) that is returned, and the per-row trail of the counters
insert_transactions(transactions, source_file_id, rows, key) ==
    LET st == InsertRows([committed |-> transactions, pending |-> {}, inserted |-> 0,
                          skipped |-> 0, log |-> <<>>], source_file_id, rows, key)
    IN  [transactions |-> st.committed \cup st.pending,
         inserted |-> st.inserted, skipped |-> st.skipped, log |-> st.log]

\* Repo.create_source_file: the id of the new row
create_source_file(source_files) == SetMax(source_files) + 1

\* Repo.delete_source_file: the transactions left
delete_source_file(transactions, source_file_id) ==
    {t \in transactions : t.source_file_id # source_file_id}

\* Repo.get_or_create_merchant: the merchant table and the row returned
get_or_create_merchant(merchants, canonical_name) ==
    LET name == Upper(Strip(canonical_name))
        found == {m \in merchants : m.canonical_name = name}
    IN  IF found # {}
        THEN [merchants |-> merchants, m |-> CHOOSE m \in found : TRUE]
        ELSE LET m == [id |-> NextId(merchants), canonical_name |-> name]
             IN  [merchants |-> merchants \cup {m}, m |-> m]

\* Repo.upsert_alias (the confidence column is not read by the engine)
upsert_alias(aliases, merchant_id, pattern, pattern_type) ==
    LET pat == Strip(pattern)
    IN  IF \E a \in aliases : a.merchant_id = merchant_id /\ a.pattern = pat
                              /\ a.pattern_type = pattern_type
        THEN aliases
        ELSE aliases \cup {[id |-> NextId(aliases), merchant_id |-> merchant_id,
                            pattern |-> pat, pattern_type |-> pattern_type]}

\* Repo.set_txn_merchant
set_txn_merchant(transactions, txn_id, merchant_id) ==
    {IF t.id = txn_id THEN [t EXCEPT !.merchant_id = merchant_id] ELSE t : t \in transactions}

\* a clear that keeps the events the user dismissed
ClearUndismissed(series, events) ==
    [series |-> {}, events |-> {e \in events : e.is_dismissed}]

\* a clear that deletes the series only
ClearSeriesOnly(series, events) == [series |-> {}, events |-> events]

\* Repo.clear_recurring_and_events: the events and the series left
clear_recurring_and_events(series, events) == [series |-> {}, events |-> {}]

\* an upsert that inserts without deleting the merchant's rows
InsertSeries(series, merchant_id, res, last_txn_id) ==
    [series |-> series \cup {[id |-> NextId(series), merchant_id |-> merchant_id,
                              period_days |-> res.period_days,
                              amount_median |-> res.amount_median,
                              amount_mad |-> res.amount_mad, gap_median |-> res.gap_median,
                              gap_mad |-> res.gap_mad, confidence |-> res.confidence,
                              last_txn_id |-> last_txn_id,
                              next_expected_at |-> res.next_expected_at,
                              status |-> "active"]},
     id |-> NextId(series)]

\* Repo.upsert_series: delete the merchant's rows, insert the new row, commit
upsert_series(series, merchant_id, res, last_txn_id) ==
    LET kept == {s \in series : s.merchant_id # merchant_id}
        rs == [id |-> NextId(kept), merchant_id |-> merchant_id,
               period_days |-> res.period_days, amount_median |-> res.amount_median,
               amount_mad |-> res.amount_mad, gap_median |-> res.gap_median,
               gap_mad |-> res.gap_mad, confidence |-> res.confidence,
               last_txn_id |-> last_txn_id, next_expected_at |-> res.next_expected_at,
               status |-> "active"]
    IN  [series |-> kept \cup {rs}, id |-> rs.id]

\* Repo.add_event; ev holds type, severity, title, merchant_id, series_id, txn_id
\* and evidence, and the stored evidence is json.dumps(evidence) through encrypt_field
add_event(events, ev, key) ==
    events \cup {[id |-> NextId(events), type |-> ev.type, severity |-> ev.severity,
                  title |-> ev.title, merchant_id |-> ev.merchant_id,
                  series_id |-> ev.series_id, txn_id |-> ev.txn_id,
                  evidence_json |-> [enc |-> key, json |-> ev.evidence],
                  is_dismissed |-> FALSE]}

\* Repo.dismiss_event
dismiss_event(events, event_id, dismissed) ==
    {IF e.id = event_id THEN [e EXCEPT !.is_dismissed = dismissed] ELSE e : e \in events}

(***************************************************************************)
(* core/engine.py: resolve_merchants                                       *)
(***************************************************************************)
fuzzy_threshold == 92

\* the two tests of the alias loop of resolve_merchants for one alias
AliasMatches(a, cleaned) ==
    LET pat == Upper(a.pattern)
    IN  \/ a.pattern_type = "contains" /\ Contains(cleaned, pat)
        \/ a.pattern_type = "exact" /\ pat = cleaned

\* an alias loop without its break: the last matching alias wins
RECURSIVE AliasChoiceLast(_, _)
AliasChoiceLast(aliasList, cleaned) ==
    IF aliasList = <<>> THEN 0
    ELSE IF AliasMatches(aliasList[Len(aliasList)], cleaned)
         THEN aliasList[Len(aliasList)].merchant_id
    ELSE AliasChoiceLast(SubSeq(aliasList, 1, Len(aliasList) - 1), cleaned)

\* the alias loop of resolve_merchants: the merchant of the first alias that
\* matches cleaned, 0 (None) when no alias matches
RECURSIVE AliasChoice(_, _)
AliasChoice(aliasList, cleaned) ==
    IF aliasList = <<>> THEN 0
    ELSE IF AliasMatches(Head(aliasList), cleaned) THEN Head(aliasList).merchant_id
    ELSE AliasChoice(Tail(aliasList), cleaned)

\* the fuzzy branch: the merchant at position best of the snapshot when its name
\* scores at least fuzzy_threshold against hint, 0 (None) otherwise
FuzzyChoice(merchantList, hint, best) ==
    IF best # 0 /\ ScoreAtLeast(fuzz_ratio(hint, merchantList[best].canonical_name),
                                fuzzy_threshold)
    THEN merchantList[best].id
    ELSE 0

\* the positions of the snapshot whose merchant is named hint
NamedLike(merchantList, hint) ==
    {i \in 1..Len(merchantList) : merchantList[i].canonical_name = hint}

\* the hint and the fuzzy branch: the merchant of the snapshot taken at the start
\* of the run that is named hint or, failing that, scores best and at least
\* fuzzy_threshold; 0 when there is none
SnapshotChoice(merchantList, hint) ==
    IF NamedLike(merchantList, hint) # {}
    THEN merchantList[CHOOSE i \in NamedLike(merchantList, hint) :
                          \A j \in NamedLike(merchantList, hint) : i <= j].id
    ELSE FuzzyChoice(merchantList, hint,
                     extractOne(hint, [i \in 1..Len(merchantList) |->
                                          merchantList[i].canonical_name]))

\* chosen before the create branch: the alias match or else the snapshot match
ExistingChoice(aliasList, merchantList, cleaned) ==
    IF AliasChoice(aliasList, cleaned) # 0 THEN AliasChoice(aliasList, cleaned)
    ELSE SnapshotChoice(merchantList, canonical_hint(cleaned))

\* a create branch without the test of cleaned
ShouldCreateUnresolved(chosen, cleaned) == chosen = 0

\* if chosen is None and cleaned:
ShouldCreate(chosen, cleaned) == chosen = 0 /\ cleaned # <<>>

\* if t.merchant_id != chosen: repo.set_txn_merchant(t.id, chosen); updated += 1
Assign(st, t, chosen) ==
    IF t.merchant_id # chosen
    THEN [st EXCEPT !.transactions = set_txn_merchant(@, t.id, chosen), !.updated = @ + 1]
    ELSE st

\* chosen = repo.get_or_create_merchant(hint).id, then the assignment
CreateAndAssign(st, t, created) ==
    Assign([st EXCEPT !.merchants = created.merchants], t, created.m.id)

ResolveCleaned(st, t, cleaned, existing) ==
    IF ShouldCreate(existing, cleaned)
    THEN CreateAndAssign(st, t, get_or_create_merchant(st.merchants, canonical_hint(cleaned)))
    ELSE Assign(st, t, existing)

\* the body of the loop over the transactions once the description is decrypted
ResolveDecrypted(st, aliasList, merchantList, t, cleaned) ==
    ResolveCleaned(st, t, cleaned, ExistingChoice(aliasList, merchantList, cleaned))

ResolveTxn(st, aliasList, merchantList, t, raw) ==
    IF raw.raised THEN [st EXCEPT !.raised = TRUE]
    ELSE ResolveDecrypted(st, aliasList, merchantList, t, clean_merchant(raw.text))

\* the body of the loop over the transactions for the transaction with id txn_id;
\* st holds the tables as committed so far, the number of writes and raised
ResolveOne(st, aliasList, merchantList, txn_id, key) ==
    ResolveTxn(st, aliasList, merchantList,
               CHOOSE x \in st.transactions : x.id = txn_id,
               maybe_decrypt(key, (CHOOSE x \in st.transactions : x.id = txn_id).description_raw))

RECURSIVE ResolveLoop(_, _, _, _, _)
ResolveLoop(st, aliasList, merchantList, txnIds, key) ==
    IF txnIds = <<>> \/ st.raised THEN st
    ELSE ResolveLoop(ResolveOne(st, aliasList, merchantList, Head(txnIds), key),
                     aliasList, merchantList, Tail(txnIds), key)

\* the ids of the first n rows of a list
FirstIds(txns, n) == [i \in 1..Min2(n, Len(txns)) |-> txns[i].id]

\* resolve_merchants stopped after the first n transactions of its list (all of
\* them for n = Len(list)): aliases, merchants and transactions are read once at
\* the start, every write is committed as it is made
resolve_merchants_upto(transactions, merchants, aliases, key, n) ==
    ResolveLoop([transactions |-> transactions, merchants |-> merchants,
                 updated |-> 0, raised |-> FALSE],
                list_aliases(aliases), list_merchants(merchants),
                FirstIds(list_transactions(transactions), n), key)

resolve_merchants(transactions, merchants, aliases, key) ==
    resolve_merchants_upto(transactions, merchants, aliases, key, Cardinality(transactions))

(***************************************************************************)
(* core/engine.py: the series loop of recompute and _events_for_series     *)
(***************************************************************************)
LastN(s, n) == SubSeq(s, Max2(1, Len(s) - n + 1), Len(s))

\* [{"date": t.posted_at.isoformat(), "amount": t.amount} for t in tx]
DateAmounts(tx) == [i \in 1..Len(tx) |-> [date |-> tx[i].posted_at, amount |-> tx[i].amount]]

\* f"{x:.2f}" of a value given doubled (a median)
Fmt2Half(x2) == <<x2 < 0, (Abs(x2) + 10) \div 20>>

\* the end of one iteration of the loop over the merchants: upsert_series and
\* series_rows.append
SeriesPersisted(st, m, tx, res, up) ==
    [series |-> up.series,
     series_rows |-> Append(st.series_rows,
                            [m |-> m, series_id |-> up.id, res |-> res, tx |-> tx])]

SeriesDetected(st, m, tx, res) ==
    IF res.none THEN st
    ELSE SeriesPersisted(st, m, tx, res, upsert_series(st.series, m.id, res, tx[Len(tx)].id))

\* the loop body asking for four transactions where the code asks for three
SeriesForTxOfFour(st, m, tx) ==
    IF Len(tx) < 4 THEN st
    ELSE SeriesDetected(st, m, tx,
                        detect_recurring([i \in 1..Len(tx) |-> tx[i].posted_at],
                                         [i \in 1..Len(tx) |-> tx[i].amount], 3))

SeriesForTx(st, m, tx) ==
    IF Len(tx) < 3 THEN st
    ELSE SeriesDetected(st, m, tx,
                        detect_recurring([i \in 1..Len(tx) |-> tx[i].posted_at],
                                         [i \in 1..Len(tx) |-> tx[i].amount], 3))

\* the body of the loop over the merchants for merchant m: the series table and
\* the list series_rows after it
SeriesForMerchant(st, transactions, m) ==
    SeriesForTx(st, m, Reverse(list_transactions_for_merchant(transactions, m.id)))

\* the events _events_for_series adds for one element of series_rows, in order
NewSubscriptionEvents(row, now) ==
    LET tx == row.tx
    IN  IF Len(tx) >= 3 /\ now - tx[Len(tx)].posted_at <= 90 * MinutesPerDay
        THEN <<[type |-> "new_subscription_detected", severity |-> "info",
                title |-> <<"Recurring charge detected: ", row.m.canonical_name>>,
                merchant_id |-> row.m.id, series_id |-> row.series_id,
                txn_id |-> tx[Len(tx)].id,
                evidence |-> [merchant |-> row.m.canonical_name,
                              period_days |-> row.res.period_days,
                              confidence |-> row.res.confidence,
                              last_n |-> DateAmounts(LastN(tx, 6))]]>>
        ELSE <<>>

\* the price check with the 10% threshold alone
PriceChangeEventsNoFloor(row) ==
    LET tx == row.tx
        before == SubSeq(tx, 1, Len(tx) - 1)
        prev == [i \in 1..Len(LastN(before, 6)) |-> LastN(before, 6)[i].amount]
        base == median(prev)
        last == tx[Len(tx)].amount
    IN  IF Len(tx) >= 5 /\ 10 * Abs(2 * last - base) > Abs(base)
        THEN <<[type |-> "price_change", severity |-> "warn",
                title |-> <<"Price change: ", row.m.canonical_name, Fmt2Half(base), Fmt2(last)>>,
                merchant_id |-> row.m.id, series_id |-> row.series_id,
                txn_id |-> tx[Len(tx)].id,
                evidence |-> [baseline_median |-> base, last_amount |-> last,
                              last_n |-> DateAmounts(LastN(tx, 8)),
                              rule |-> "last amount deviates from rolling median"]]>>
        ELSE <<>>

PriceChangeEvents(row) ==
    LET tx == row.tx
        before == SubSeq(tx, 1, Len(tx) - 1)
        prev == [i \in 1..Len(LastN(before, 6)) |-> LastN(before, 6)[i].amount]
        base == median(prev)
        last == tx[Len(tx)].amount
    IN  IF Len(tx) >= 5 /\ 10 * Abs(2 * last - base) > Max2(Abs(base), 20 * 2 * MillsPerUnit)
        THEN <<[type |-> "price_change", severity |-> "warn",
                title |-> <<"Price change: ", row.m.canonical_name, Fmt2Half(base), Fmt2(last)>>,
                merchant_id |-> row.m.id, series_id |-> row.series_id,
                txn_id |-> tx[Len(tx)].id,
                evidence |-> [baseline_median |-> base, last_amount |-> last,
                              last_n |-> DateAmounts(LastN(tx, 8)),
                              rule |-> "last amount deviates from rolling median"]]>>
        ELSE <<>>

\* the pair test with a window of one hour
IsDuplicatePairWithinHour(a, b) ==
    /\ Abs(b.posted_at - a.posted_at) <= 60
    /\ 50 * Abs(b.amount - a.amount) <= Max2(Abs(a.amount), 50 * MillsPerUnit)

IsDuplicatePair(a, b) ==
    /\ Abs(b.posted_at - a.posted_at) <= 36 * 60
    /\ 50 * Abs(b.amount - a.amount) <= Max2(Abs(a.amount), 50 * MillsPerUnit)

RECURSIVE DuplicateEventsFrom(_, _)
DuplicateEventsFrom(row, i) ==
    IF i > Len(row.tx) - 1 THEN <<>>
    ELSE LET a == row.tx[i]
             b == row.tx[i + 1]
             ev == [type |-> "possible_duplicate", severity |-> "warn",
                    title |-> <<"Possible duplicate: ", row.m.canonical_name, Fmt2(a.amount)>>,
                    merchant_id |-> row.m.id, series_id |-> row.series_id, txn_id |-> b.id,
                    evidence |-> [a |-> [date |-> a.posted_at, amount |-> a.amount, txn_id |-> a.id],
                                  b |-> [date |-> b.posted_at, amount |-> b.amount, txn_id |-> b.id],
                                  rule |-> "close timestamps + similar amount"]]
         IN  (IF IsDuplicatePair(a, b) THEN <<ev>> ELSE <<>>) \o DuplicateEventsFrom(row, i + 1)

\* for i in range(max(0, len(tx) - 10), len(tx) - 1), with indices from 1
DuplicateEvents(row) == DuplicateEventsFrom(row, Max2(0, Len(row.tx) - 10) + 1)

RECURSIVE SeriesEvents(_, _)
SeriesEvents(series_rows, now) ==
    IF series_rows = <<>> THEN <<>>
    ELSE NewSubscriptionEvents(Head(series_rows), now) \o PriceChangeEvents(Head(series_rows))
         \o DuplicateEvents(Head(series_rows)) \o SeriesEvents(Tail(series_rows), now)

(***************************************************************************)
(* core/anomalies.py.  A row is [txn_id, posted_at, amount, merchant].     *)
(***************************************************************************)
\* robust_z(x, med, mad_val) as an exact fraction
RobustZ(x, med, mad_val, unitsPerOne) ==
    IF mad_val > 0 THEN <<(2 * x - med) * 20000, mad_val>> ELSE <<2 * x - med, 2 * unitsPerOne>>

\* the keys of by_m in insertion order
RECURSIVE MerchantKeys(_, _)
MerchantKeys(rows, seen) ==
    IF rows = <<>> THEN <<>>
    ELSE IF Head(rows).merchant \in seen THEN MerchantKeys(Tail(rows), seen)
    ELSE <<Head(rows).merchant>> \o MerchantKeys(Tail(rows), seen \cup {Head(rows).merchant})

\* the flags of one group with every row examined, not only the first 80
GroupAnomaliesOfAllRows(m, rows, z_thresh) ==
    LET amounts == [i \in 1..Len(rows) |-> Abs(rows[i].amount)]
        med == median(amounts)
        m_mad == mad(amounts)
        flagged == SelectSeq(rows,
                             LAMBDA r : AbsRobustZAtLeast(Abs(r.amount), med, m_mad, z_thresh, MillsPerUnit))
    IN  IF Len(rows) < 8 THEN <<>>
        ELSE [i \in 1..Len(flagged) |->
                 [type |-> "merchant_amount_anomaly", merchant |-> m,
                  txn_id |-> flagged[i].txn_id, amount |-> flagged[i].amount,
                  z |-> RobustZ(Abs(flagged[i].amount), med, m_mad, MillsPerUnit),
                  baseline_median |-> med, baseline_mad |-> m_mad]]

\* the flags of one group of by_m
GroupAnomalies(m, rows, z_thresh) ==
    LET amounts == [i \in 1..Len(rows) |-> Abs(rows[i].amount)]
        med == median(amounts)
        m_mad == mad(amounts)
        flagged == SelectSeq(Take(rows, 80),
                             LAMBDA r : AbsRobustZAtLeast(Abs(r.amount), med, m_mad, z_thresh, MillsPerUnit))
    IN  IF Len(rows) < 8 THEN <<>>
        ELSE [i \in 1..Len(flagged) |->
                 [type |-> "merchant_amount_anomaly", merchant |-> m,
                  txn_id |-> flagged[i].txn_id, amount |-> flagged[i].amount,
                  z |-> RobustZ(Abs(flagged[i].amount), med, m_mad, MillsPerUnit),
                  baseline_median |-> med, baseline_mad |-> m_mad]]

RECURSIVE AnomaliesOfGroups(_, _, _)
AnomaliesOfGroups(keys, transactions, z_thresh) ==
    IF keys = <<>> THEN <<>>
    ELSE GroupAnomalies(Head(keys), SelectSeq(transactions, LAMBDA t : t.merchant = Head(keys)), z_thresh)
         \o AnomaliesOfGroups(Tail(keys), transactions, z_thresh)

merchant_anomalies(transactions, z_thresh) ==
    AnomaliesOfGroups(MerchantKeys(transactions, {}), transactions, z_thresh)

\* t["posted_at"].date(), as a day number
DayOf(posted_at) == posted_at \div MinutesPerDay

RECURSIVE SumAbs(_)
SumAbs(rows) == IF rows = <<>> THEN 0 ELSE Abs(Head(rows).amount) + SumAbs(Tail(rows))

RECURSIVE SpikesFrom(_, _, _, _, _)
SpikesFrom(days, values, i, window_days, spike_z) ==
    IF i > Len(days) THEN <<>>
    ELSE LET start == Max2(0, (i - 1) - window_days)
             hist == SubSeq(values, start + 1, i - 1)
             med == median(hist)
             m_mad == mad(hist)
             out == [type |-> "daily_spike", day |-> days[i], total |-> values[i],
                     z |-> RobustZ(values[i], med, m_mad, MillsPerUnit),
                     baseline_median |-> med, baseline_mad |-> m_mad]
         IN  (IF RobustZAtLeast(values[i], med, m_mad, spike_z, MillsPerUnit) THEN <<out>> ELSE <<>>)
             \o SpikesFrom(days, values, i + 1, window_days, spike_z)

daily_spike_anomalies(transactions, window_days, spike_z) ==
    LET dayList == [i \in 1..Len(transactions) |-> DayOf(transactions[i].posted_at)]
        daySet == {dayList[i] : i \in 1..Len(dayList)}
        days == SortedInts(RowsByValue(daySet))
        values == [i \in 1..Len(days) |->
                      SumAbs(SelectSeq(transactions, LAMBDA t : DayOf(t.posted_at) = days[i]))]
    IN  IF Len(days) < 14 THEN <<>> ELSE SpikesFrom(days, values, 8, window_days, spike_z)

\* sorted(transactions, key=lambda t: t["posted_at"]): a stable sort
SortRowsByPostedAt(rows) ==
    LET idx == SortSeq([i \in 1..Len(rows) |-> i],
                       LAMBDA i, j : rows[i].posted_at < rows[j].posted_at
                                     \/ (rows[i].posted_at = rows[j].posted_at /\ i < j))
    IN  [k \in 1..Len(rows) |-> rows[idx[k]]]

\* the inner while loop of burst_small_charges: the value of j after it
RECURSIVE AdvanceWindow(_, _, _, _)
AdvanceWindow(tx, i, j, window_minutes) ==
    IF tx[i].posted_at - tx[j].posted_at > window_minutes
    THEN IF j + 1 >= i THEN j + 1 ELSE AdvanceWindow(tx, i, j + 1, window_minutes)
    ELSE j

\* the for loop with the window start left where it is after a burst
RECURSIVE BurstsFromKeepStart(_, _, _, _, _, _)
BurstsFromKeepStart(tx, i, j, amount_max, window_minutes, count_min) ==
    IF i > Len(tx) THEN <<>>
    ELSE LET j2 == AdvanceWindow(tx, i, j, window_minutes)
             window == SubSeq(tx, j2, i)
             small == SelectSeq(window, LAMBDA t : Abs(t.amount) <= amount_max)
         IN  IF Len(small) >= count_min
             THEN <<[type |-> "burst_small_charges", start |-> window[1].posted_at,
                     end |-> window[Len(window)].posted_at, count |-> Len(small)]>>
                  \o BurstsFromKeepStart(tx, i + 1, j2, amount_max, window_minutes, count_min)
             ELSE BurstsFromKeepStart(tx, i + 1, j2, amount_max, window_minutes, count_min)

\* the for loop with the next window starting at the last charge of the burst
RECURSIVE BurstsFromLastCharge(_, _, _, _, _, _)
BurstsFromLastCharge(tx, i, j, amount_max, window_minutes, count_min) ==
    IF i > Len(tx) THEN <<>>
    ELSE LET j2 == AdvanceWindow(tx, i, j, window_minutes)
             window == SubSeq(tx, j2, i)
             small == SelectSeq(window, LAMBDA t : Abs(t.amount) <= amount_max)
         IN  IF Len(small) >= count_min
             THEN <<[type |-> "burst_small_charges", start |-> window[1].posted_at,
                     end |-> window[Len(window)].posted_at, count |-> Len(small)]>>
                  \o BurstsFromLastCharge(tx, i + 1, i, amount_max, window_minutes, count_min)
             ELSE BurstsFromLastCharge(tx, i + 1, j2, amount_max, window_minutes, count_min)

\* the for loop of burst_small_charges from index i on, with indices from 1
RECURSIVE BurstsFrom(_, _, _, _, _, _)
BurstsFrom(tx, i, j, amount_max, window_minutes, count_min) ==
    IF i > Len(tx) THEN <<>>
    ELSE LET j2 == AdvanceWindow(tx, i, j, window_minutes)
             window == SubSeq(tx, j2, i)
             small == SelectSeq(window, LAMBDA t : Abs(t.amount) <= amount_max)
         IN  IF Len(small) >= count_min
             THEN <<[type |-> "burst_small_charges", start |-> window[1].posted_at,
                     end |-> window[Len(window)].posted_at, count |-> Len(small)]>>
                  \o BurstsFrom(tx, i + 1, i + 1, amount_max, window_minutes, count_min)
             ELSE BurstsFrom(tx, i + 1, j2, amount_max, window_minutes, count_min)

burst_small_charges(transactions, amount_max, window_minutes, count_min) ==
    BurstsFrom(SortRowsByPostedAt(transactions), 1, 1, amount_max, window_minutes, count_min)

(***************************************************************************)
(* core/engine.py: _events_for_anomalies                                   *)
(***************************************************************************)
StrUNKNOWN == <<"U", "N", "K", "N", "O", "W", "N">>

\* merchants.get(t.merchant_id or -1, "UNKNOWN")
MerchantNameOf(merchants, merchant_id) ==
    IF \E m \in merchants : m.id = merchant_id
    THEN (CHOOSE m \in merchants : m.id = merchant_id).canonical_name
    ELSE StrUNKNOWN

AnomalyRows(transactions, merchants) ==
    LET txns == list_transactions(transactions)
    IN  [i \in 1..Len(txns) |->
            [txn_id |-> txns[i].id, posted_at |-> txns[i].posted_at, amount |-> txns[i].amount,
             merchant |-> MerchantNameOf(merchants, txns[i].merchant_id)]]

\* the three loops of _events_for_anomalies over the detectors' results
AnomalyEventsOf(ma, ds, bs) ==
    [i \in 1..Len(ma) |->
        [type |-> "spend_anomaly", severity |-> "warn",
         title |-> <<"Unusual charge: ", Fmt2(ma[i].amount), ma[i].merchant>>,
         merchant_id |-> 0, series_id |-> 0, txn_id |-> ma[i].txn_id, evidence |-> ma[i]]]
    \o [i \in 1..Len(ds) |->
        [type |-> "daily_spike", severity |-> "info",
         title |-> <<"Daily spend spike: ", ds[i].day, Fmt2(ds[i].total)>>,
         merchant_id |-> 0, series_id |-> 0, txn_id |-> 0, evidence |-> ds[i]]]
    \o [i \in 1..Len(bs) |->
        [type |-> "burst_small_charges", severity |-> "high",
         title |-> <<"Burst of small charges", bs[i].count>>,
         merchant_id |-> 0, series_id |-> 0, txn_id |-> 0, evidence |-> bs[i]]]

AnomalyEventsOfRows(rows) ==
    AnomalyEventsOf(Take(merchant_anomalies(rows, 4), 200),
                    Take(daily_spike_anomalies(rows, 60, 4), 200),
                    Take(burst_small_charges(rows, 5 * MillsPerUnit, 30, 5), 50))

\* the events _events_for_anomalies adds, in order
AnomalyEvents(transactions, merchants) ==
    AnomalyEventsOfRows(AnomalyRows(transactions, merchants))

(***************************************************************************)
(* core/engine.py: recompute                                               *)
(***************************************************************************)
RECURSIVE SeriesLoop(_, _, _)
SeriesLoop(st, transactions, merchantList) ==
    IF merchantList = <<>> THEN st
    ELSE SeriesLoop(SeriesForMerchant(st, transactions, Head(merchantList)),
                    transactions, Tail(merchantList))

RECURSIVE AddEvents(_, _, _)
AddEvents(events, evs, key) ==
    IF evs = <<>> THEN events ELSE AddEvents(add_event(events, Head(evs), key), Tail(evs), key)

\* recompute from _events_for_series on: r is what resolve_merchants left,
\* cleared what clear_recurring_and_events left and sl what the loop over the
\* merchants left
RecomputeEvents(r, cleared, sl, clock, key) ==
    [transactions |-> r.transactions, merchants |-> r.merchants, series |-> sl.series,
     events |-> AddEvents(AddEvents(cleared.events, SeriesEvents(sl.series_rows, clock), key),
                          AnomalyEvents(r.transactions, r.merchants), key),
     updated |-> r.updated, raised |-> FALSE]

\* recompute from the loop over the merchants on
RecomputeCleared(r, cleared, clock, key) ==
    RecomputeEvents(r, cleared,
                    SeriesLoop([series |-> cleared.series, series_rows |-> <<>>],
                               r.transactions, list_merchants(r.merchants)),
                    clock, key)

\* recompute after resolve_merchants; when resolve_merchants raised, nothing
\* else ran
RecomputeResolved(r, series, events, clock, key) ==
    IF r.raised
    THEN [transactions |-> r.transactions, merchants |-> r.merchants, series |-> series,
          events |-> events, updated |-> r.updated, raised |-> TRUE]
    ELSE RecomputeCleared(r, clear_recurring_and_events(series, events), clock, key)

\* recompute run from its first to its last line on the tables given; updated is
\* the number of merchant assignments resolve_merchants wrote
recompute(transactions, merchants, aliases, series, events, clock, key) ==
    RecomputeResolved(resolve_merchants(transactions, merchants, aliases, key),
                      series, events, clock, key)

(***************************************************************************)
(* The state: the tables of the ledger, the clock, and for each recompute  *)
(* run in progress its position and its local variables.  obs holds what   *)
(* the last command was given and what it returned or logged.  settings is *)
(* the settings table as far as encryption goes, session_state the key the *)
(* Streamlit session holds.                                                *)
(***************************************************************************)
VARIABLES source_files, transactions, merchants, aliases, series, events, settings,
          session_state, now, pc, loc, obs

vars == <<source_files, transactions, merchants, aliases, series, events, settings,
          session_state, now, pc, loc, obs>>

\* bounds of the model
MaxBatch == 2

MaxTxns == 4

MaxImports == 2

Day(d) == d * MinutesPerDay

StrABCDEF == <<"A", "B", "C", "D", "E", "F">>

\* the rows an import can hold: two charges of one merchant a month apart, the
\* first of them again in another spelling and a few mills off, and two later
\* charges whose descriptions are near variants of the first
ImportRows ==
    {[posted_at |-> Day(0), amount |-> 9990, description_raw |-> StrABCDEF],
     [posted_at |-> Day(0), amount |-> 9994,
      description_raw |-> <<" ", "a", "b", "c", "d", "e", "f">>],
     [posted_at |-> Day(30), amount |-> 9990, description_raw |-> StrABCDEF],
     [posted_at |-> Day(30) + 120, amount |-> 9990, description_raw |-> StrABCDEF \o <<"G">>],
     [posted_at |-> Day(60), amount |-> 9990, description_raw |-> StrABCDEF \o <<"G", "H">>]}

Batches == UNION {[1..n -> ImportRows] : n \in 1..MaxBatch}

ClockValues == {Day(61), Day(200)}

Procs == {1, 2}

\* key is the key of the Repo the last command ran with, raised whether the
\* command ended by an exception, call and result the arguments and the value of
\* the last call of a function that is not a command
NoObs ==
    [op |-> "none", imports |-> 0, log |-> <<>>, inserted |-> 0, skipped |-> 0,
     writes |-> 0, rerun |-> FALSE, fresh |-> FALSE, hadDismissed |-> FALSE,
     serial |-> TRUE, key |-> NoKey, raised |-> FALSE, call |-> <<>>, result |-> <<>>]

\* the settings table of a new database: encryption is not enabled
NoSettings == [encryption_enabled |-> FALSE, encryption_salt_b64 |-> NoKey, encryption_check |-> <<>>]

\* st.session_state of a new browser session: none of the keys the pages read
NoSession == [encryption_key |-> NoKey, passphrase |-> NoKey, encryption_salt_b64 |-> NoKey]

Init ==
    /\ source_files = {}
    /\ transactions = {}
    /\ merchants = {}
    /\ aliases = {}
    /\ series = {}
    /\ events = {}
    /\ settings = NoSettings
    /\ session_state = NoSession
    /\ now \in ClockValues
    /\ pc = [p \in Procs |-> "idle"]
    /\ loc = [p \in Procs |-> <<>>]
    /\ obs = NoObs

\* a recompute that ran as the last step of a command with a Repo holding key;
\* ins is what insert_transactions returned when the command is an import
RanRecompute(r, op, ins, key) ==
    /\ transactions' = r.transactions
    /\ merchants' = r.merchants
    /\ series' = r.series
    /\ events' = r.events
    /\ obs' = [op |-> op,
               imports |-> obs.imports + (IF op \in {"import", "mcp_import"} THEN 1 ELSE 0),
               log |-> ins.log, inserted |-> ins.inserted, skipped |-> ins.skipped,
               writes |-> r.updated,
               rerun |-> op = "recompute" /\ obs.op # "none" /\ obs.fresh,
               fresh |-> TRUE,
               hadDismissed |-> \E e \in events : e.is_dismissed,
               serial |-> obs.serial,
               key |-> key, raised |-> r.raised, call |-> <<>>, result |-> <<>>]

NoInsert == [log |-> <<>>, inserted |-> 0, skipped |-> 0]

\* cli.py cmd_import, the import button of pages/0_Statements.py for one file:
\* create_source_file, insert_transactions, recompute
CmdImport(rows) ==
    /\ obs.imports < MaxImports
    /\ LET sfid == create_source_file(source_files)
           ins == insert_transactions(transactions, sfid, rows, NoKey)
           r == recompute(ins.transactions, merchants, aliases, series, events, now, NoKey)
       IN  /\ Cardinality(ins.transactions) <= MaxTxns
           /\ source_files' = source_files \cup {sfid}
           /\ RanRecompute(r, "import", ins, NoKey)
    /\ UNCHANGED <<settings, session_state, aliases, now, pc, loc>>

\* cli.py cmd_recompute, the recompute button of pages/0_Statements.py
CmdRecompute ==
    /\ obs.op # "none"
    /\ RanRecompute(recompute(transactions, merchants, aliases, series, events, now, NoKey),
                    "recompute", NoInsert, NoKey)
    /\ UNCHANGED <<settings, session_state, source_files, aliases, now, pc, loc>>

\* the delete button without the recompute that follows delete_source_file
DeleteStatementOnly(sfid) ==
    /\ sfid \in source_files
    /\ source_files' = source_files \ {sfid}
    /\ transactions' = delete_source_file(transactions, sfid)
    /\ obs' = [obs EXCEPT !.op = "delete"]
    /\ UNCHANGED <<settings, session_state, merchants, series, events, aliases, now, pc, loc>>

\* the delete button of pages/0_Statements.py: delete_source_file, recompute
DeleteStatement(sfid) ==
    /\ sfid \in source_files
    /\ source_files' = source_files \ {sfid}
    /\ RanRecompute(recompute(delete_source_file(transactions, sfid), merchants, aliases,
                              series, events, now, NoKey),
                    "delete", NoInsert, NoKey)
    /\ UNCHANGED <<settings, session_state, aliases, now, pc, loc>>

\* the dismiss button of pages/3_Alerts.py
DismissEvent(e) ==
    /\ ~e.is_dismissed
    /\ events' = dismiss_event(events, e.id, TRUE)
    /\ obs' = [obs EXCEPT !.op = "dismiss"]
    /\ UNCHANGED <<settings, session_state, source_files, transactions, merchants, aliases, series, now, pc, loc>>

Next ==
    \/ \E rows \in Batches : CmdImport(rows)
    \/ CmdRecompute
    \/ \E sfid \in source_files : DeleteStatement(sfid)
    \/ \E e \in events : DismissEvent(e)

Spec == Init /\ [][Next]_vars

(***************************************************************************)
(* Properties of the commands                                              *)
(***************************************************************************)
\* the derived content the ledger shows, without row ids: the series of each
\* merchant and the events
SeriesContent ==
    {[merchant_id |-> s.merchant_id, period_days |-> s.period_days,
      amount_median |-> s.amount_median, amount_mad |-> s.amount_mad,
      gap_median |-> s.gap_median, gap_mad |-> s.gap_mad, confidence |-> s.confidence] : s \in series}

EventContent == {[type |-> e.type, title |-> e.title, evidence |-> e.evidence_json.json] : e \in events}

AfterRecompute == obs.op \in {"import", "recompute", "delete"}

\* C2: a recompute that directly follows a completed recompute, with no import,
\* statement deletion or alias change in between and the clock unchanged, leaves
\* the series content of every merchant and the set of events (type, title,
\* evidence) as they were after the first run.
RecomputeTwiceSameContent ==
    [][(obs'.op = "recompute" /\ obs'.rerun /\ now' = now)
         => (SeriesContent' = SeriesContent /\ EventContent' = EventContent)]_vars

\* the partition of the transactions (known by their fingerprints) into merchants
GroupingOf(txns) ==
    {{x.hash_dedupe : x \in {y \in txns : y.merchant_id = t.merchant_id}} : t \in txns}

SeriesByName(ss, ms) ==
    {[merchant |-> MerchantNameOf(ms, s.merchant_id), period_days |-> s.period_days,
      amount_median |-> s.amount_median, amount_mad |-> s.amount_mad,
      gap_median |-> s.gap_median, gap_mad |-> s.gap_mad, confidence |-> s.confidence] : s \in ss}

EventTitles(es) == {[type |-> e.type, title |-> e.title] : e \in es}

\* the ledger that one import of the current transactions into an empty store,
\* with the current alias table and clock, leaves
FreshLedger ==
    LET rows == RowsById(transactions)
        batch == [i \in 1..Len(rows) |->
                     [posted_at |-> rows[i].posted_at, amount |-> rows[i].amount,
                      description_raw |-> maybe_decrypt(NoKey, rows[i].description_raw).text]]
    IN  recompute(insert_transactions({}, 1, batch, NoKey).transactions,
                  {}, aliases, {}, {}, now, NoKey)

\* C3: the grouping of the transactions into merchants, the series and the events
\* a ledger holds after a recompute are those of a ledger that received the same
\* transactions in one import: they do not depend on the history.
HistoryIndependent ==
    AfterRecompute =>
        /\ GroupingOf(transactions) = GroupingOf(FreshLedger.transactions)
        /\ SeriesByName(series, merchants) = SeriesByName(FreshLedger.series, FreshLedger.merchants)
        /\ EventTitles(events) = EventTitles(FreshLedger.events)

\* the fingerprint as the specification words it: the timestamp, the amount to
\* two decimals, the description stripped and upper-cased
Fingerprint(posted_at, amount, description) ==
    <<posted_at, Fmt2(amount), Upper(Strip(description))>>

AlreadyStored(r, stored) ==
    \E t \in stored : Fingerprint(t.posted_at, t.amount, t.description_raw)
                      = Fingerprint(r.posted_at, r.amount, r.description_raw)

\* a stored transaction but for its merchant, which recompute assigns
Stored(t) == [t EXCEPT !.merchant_id = 0]

\* C4: a row given to insert_transactions whose fingerprint is already in the
\* ledger raises skipped by one, leaves inserted as it is, and leaves the stored
\* transactions as they are.
DuplicateRowSkipped ==
    \A i \in 1..Len(obs.log) :
        LET e == obs.log[i]
            inserted0 == IF i = 1 THEN 0 ELSE obs.log[i - 1].inserted
            skipped0 == IF i = 1 THEN 0 ELSE obs.log[i - 1].skipped
        IN  AlreadyStored(e.row, e.committed) =>
                /\ e.skipped = skipped0 + 1
                /\ e.inserted = inserted0
                /\ \A t \in e.committed : \E u \in transactions : Stored(u) = Stored(t)

\* C4 witness: an import held a row already stored under another spelling and a
\* slightly different amount, and it was skipped
DuplicateRowSeen ==
    \E i \in 1..Len(obs.log) :
        /\ AlreadyStored(obs.log[i].row, obs.log[i].committed)
        /\ \A t \in obs.log[i].committed : t.description_raw # obs.log[i].row.description_raw
        /\ obs.skipped >= 1

\* C6: after every recompute no event in the store is dismissed, whatever was
\* dismissed before it.
NoDismissedAfterRecompute == AfterRecompute => \A e \in events : ~e.is_dismissed

\* C6 witness: a recompute ran on a store that held a dismissed event and left events
RecomputeAfterDismiss == obs.op = "recompute" /\ obs.hadDismissed /\ events # {}

\* C8: a resolve_merchants run that directly follows a completed run, with no
\* transaction or alias changed in between, writes no merchant assignment.
SecondResolveWritesNothing == (obs.op = "recompute" /\ obs.rerun) => obs.writes = 0

(***************************************************************************)
(* The alias table.  No page and no command of the repository calls        *)
(* Repo.upsert_alias; it is the one operation of the store that fills the  *)
(* table resolve_merchants reads.                                          *)
(***************************************************************************)
MaxAliases == 2

AliasRows ==
    {[posted_at |-> Day(0), amount |-> 9990, description_raw |-> StrABCDEF],
     [posted_at |-> Day(30), amount |-> 9990, description_raw |-> <<"#">>],
     [posted_at |-> Day(60), amount |-> 9990, description_raw |-> StrABCDEF \o <<"G", "H">>]}

AliasBatches == {<<r>> : r \in AliasRows}

AliasPatterns == {<<>>, <<"a", "b", "c", " ">>}

PatternTypes == {"contains", "exact"}

\* Repo.upsert_alias for an existing merchant
UpsertAlias(m, pattern, pattern_type) ==
    /\ Cardinality(aliases) < MaxAliases
    /\ aliases' = upsert_alias(aliases, m.id, pattern, pattern_type)
    /\ aliases' # aliases
    /\ obs' = [obs EXCEPT !.op = "alias", !.fresh = FALSE]
    /\ UNCHANGED <<settings, session_state, source_files, transactions, merchants, series, events, now, pc, loc>>

NextAlias ==
    \/ \E rows \in AliasBatches : CmdImport(rows)
    \/ CmdRecompute
    \/ \E m \in merchants, pattern \in AliasPatterns, pattern_type \in PatternTypes :
           UpsertAlias(m, pattern, pattern_type)

SpecAlias == Init /\ [][NextAlias]_vars

\* the normalized description of a stored transaction
CleanedOf(t) == clean_merchant(maybe_decrypt(NoKey, t.description_raw).text)

\* the positions of the alias list whose alias matches cleaned
MatchingAliases(als, cleaned) ==
    {i \in 1..Len(list_aliases(als)) : AliasMatches(list_aliases(als)[i], cleaned)}

FirstMatchingAlias(als, cleaned) ==
    list_aliases(als)[CHOOSE i \in MatchingAliases(als, cleaned) :
                          \A j \in MatchingAliases(als, cleaned) : i <= j]

\* every transaction that some alias matches carries the merchant of the first
\* alias, in list order, that matches it
AliasedByFirstMatch(txns, als) ==
    \A t \in txns :
        MatchingAliases(als, CleanedOf(t)) # {}
            => t.merchant_id = FirstMatchingAlias(als, CleanedOf(t)).merchant_id

\* every merchant of created is the merchant of the hint of a transaction that no
\* alias matches and whose normalized description is not empty
CreatedForUnaliased(txns, als, created) ==
    \A m \in created :
        \E t \in txns :
            /\ MatchingAliases(als, CleanedOf(t)) = {}
            /\ CleanedOf(t) # <<>>
            /\ m.canonical_name = Upper(Strip(canonical_hint(CleanedOf(t))))
            /\ t.merchant_id = m.id

\* C9: after resolve_merchants a transaction whose normalized description is
\* matched by at least one alias carries the merchant of the first matching alias
\* in alias-list order, whatever its hint and the merchants are, and the run
\* creates merchants only for transactions that no alias matches.
FirstAliasWins ==
    [][AfterRecompute' =>
          /\ AliasedByFirstMatch(transactions', aliases')
          /\ CreatedForUnaliased(transactions', aliases', merchants' \ merchants)]_vars

\* C9 witness: two aliases of different merchants match a transaction whose hint
\* names an existing merchant, and the transaction carries the merchant of the
\* first alias, which is not the merchant its hint names
TwoAliasesMatched ==
    /\ AfterRecompute
    /\ \E t \in transactions :
           LET hits == MatchingAliases(aliases, CleanedOf(t))
               first == FirstMatchingAlias(aliases, CleanedOf(t))
           IN  /\ \E i, j \in hits :
                      list_aliases(aliases)[i].merchant_id # list_aliases(aliases)[j].merchant_id
               /\ t.merchant_id = first.merchant_id
               /\ \E m \in merchants : /\ m.canonical_name = canonical_hint(CleanedOf(t))
                                       /\ m.id # first.merchant_id

\* C10 as stated: after resolve_merchants every transaction whose normalized
\* description is empty has no merchant, and no merchant was created for it,
\* whatever the alias table and the merchant table hold.
EmptyDescriptionUnassigned ==
    [][AfterRecompute' =>
          /\ \A t \in transactions' : CleanedOf(t) = <<>> => t.merchant_id = 0
          /\ CreatedForUnaliased(transactions', aliases', merchants' \ merchants)]_vars

\* C10 amended: after resolve_merchants every transaction whose normalized
\* description is empty has no merchant unless an alias matches the empty string
\* (an alias whose pattern is empty after stripping), in which case it carries the
\* merchant of the first such alias; in both cases no merchant is created for it.
EmptyDescriptionUnassignedUnlessAliased ==
    [][AfterRecompute' =>
          /\ \A t \in transactions' :
                 CleanedOf(t) = <<>> =>
                     t.merchant_id = IF MatchingAliases(aliases', <<>>) = {} THEN 0
                                     ELSE FirstMatchingAlias(aliases', <<>>).merchant_id
          /\ CreatedForUnaliased(transactions', aliases', merchants' \ merchants)]_vars

\* C10 witness: a transaction with an empty normalized description was resolved
\* while merchants and aliases existed, none of the aliases matching it, and it
\* has no merchant
EmptyDescriptionResolved ==
    /\ AfterRecompute
    /\ merchants # {}
    /\ aliases # {}
    /\ \E t \in transactions :
           /\ CleanedOf(t) = <<>>
           /\ MatchingAliases(aliases, <<>>) = {}
           /\ t.merchant_id = 0

(***************************************************************************)
(* recompute step by step.  Every Repo call of recompute commits, so a run *)
(* of recompute is a sequence of transactions of the store; two callers    *)
(* (a page of the app, the command line, the MCP server) hold no lock, so  *)
(* their runs interleave between any two commits.  A process p runs        *)
(* recompute once; pc[p] is its position and loc[p] its local variables.   *)
(* resolve_merchants, which does not touch series and events, is one step. *)
(***************************************************************************)
StrXYZ == <<"X", "Y", "Z">>

\* the statements the ledger was filled from: three monthly charges of one
\* merchant, alone or with three monthly charges of a second merchant
StepBatches ==
    {[i \in 1..3 |-> [posted_at |-> Day(30 * (i - 1)), amount |-> 9990,
                      description_raw |-> StrABCDEF]],
     [i \in 1..6 |-> [posted_at |-> Day(30 * ((i - 1) \div 2)) + (i % 2), amount |-> 9990,
                      description_raw |-> IF i % 2 = 1 THEN StrABCDEF ELSE StrXYZ]]}

NoLoc ==
    [series0 |-> {}, events0 |-> {}, merchantList |-> <<>>, idx |-> 0,
     series_rows |-> <<>>, evs |-> <<>>]

InitSteps ==
    /\ now \in ClockValues
    /\ aliases = {}
    /\ settings = NoSettings
    /\ session_state = NoSession
    /\ source_files = {1}
    /\ \E rows \in StepBatches :
           LET ins == insert_transactions({}, 1, rows, NoKey)
               r == recompute(ins.transactions, {}, {}, {}, {}, now, NoKey)
           IN  /\ transactions = r.transactions
               /\ merchants = r.merchants
               /\ series = r.series
               /\ events = r.events
    /\ pc = [p \in Procs |-> "idle"]
    /\ loc = [p \in Procs |-> NoLoc]
    /\ obs = [NoObs EXCEPT !.op = "import", !.imports = 1, !.fresh = TRUE]

\* no other run is between its first and its last step
Quiet(p) == \A q \in Procs \ {p} : pc[q] \in {"idle", "done", "failed"}

Stepped(p) == obs' = [obs EXCEPT !.serial = @ /\ Quiet(p)]

\* engine.py line 65: resolve_merchants(repo)
Resolve(p) ==
    /\ pc[p] = "idle"
    /\ LET r == resolve_merchants(transactions, merchants, aliases, NoKey)
       IN  /\ transactions' = r.transactions
           /\ merchants' = r.merchants
    /\ pc' = [pc EXCEPT ![p] = "clear"]
    /\ loc' = [loc EXCEPT ![p] = [NoLoc EXCEPT !.series0 = series, !.events0 = events]]
    /\ Stepped(p)
    /\ UNCHANGED <<settings, session_state, source_files, aliases, series, events, now>>

\* resolve_merchants raises at its transaction n + 1 (the description cannot be
\* decrypted, the store refuses a write): what it wrote before stays committed
FailResolve(p, n) ==
    /\ pc[p] = "idle"
    /\ LET r == resolve_merchants_upto(transactions, merchants, aliases, NoKey, n)
       IN  /\ transactions' = r.transactions
           /\ merchants' = r.merchants
    /\ pc' = [pc EXCEPT ![p] = "failed"]
    /\ loc' = [loc EXCEPT ![p] = [NoLoc EXCEPT !.series0 = series, !.events0 = events]]
    /\ Stepped(p)
    /\ UNCHANGED <<settings, session_state, source_files, aliases, series, events, now>>

\* the step of line 66 leaving the derived tables as they are
ClearNothing(p) ==
    /\ pc[p] = "clear"
    /\ UNCHANGED <<series, events>>
    /\ pc' = [pc EXCEPT ![p] = IF merchants = {} THEN "events" ELSE "series"]
    /\ loc' = [loc EXCEPT ![p].merchantList = list_merchants(merchants), ![p].idx = 1]
    /\ Stepped(p)
    /\ UNCHANGED <<settings, session_state, source_files, transactions, merchants, aliases, now>>

\* engine.py lines 66-69: repo.clear_recurring_and_events(), repo.list_merchants()
Clear(p) ==
    /\ pc[p] = "clear"
    /\ LET cleared == clear_recurring_and_events(series, events)
       IN  /\ series' = cleared.series
           /\ events' = cleared.events
    /\ pc' = [pc EXCEPT ![p] = IF merchants = {} THEN "events" ELSE "series"]
    /\ loc' = [loc EXCEPT ![p].merchantList = list_merchants(merchants), ![p].idx = 1]
    /\ Stepped(p)
    /\ UNCHANGED <<settings, session_state, source_files, transactions, merchants, aliases, now>>

\* engine.py lines 70-92: one iteration of the loop over the merchants; after the
\* last one, line 94 enters _events_for_series with series_rows
SeriesStep(p) ==
    /\ pc[p] = "series"
    /\ LET l == loc[p]
           st == SeriesForMerchant([series |-> series, series_rows |-> l.series_rows],
                                   transactions, l.merchantList[l.idx])
           last == l.idx = Len(l.merchantList)
       IN  /\ series' = st.series
           /\ loc' = [loc EXCEPT ![p].series_rows = st.series_rows,
                                 ![p].idx = l.idx + 1,
                                 ![p].evs = IF last THEN SeriesEvents(st.series_rows, now)
                                            ELSE <<>>]
           /\ pc' = [pc EXCEPT ![p] = IF last THEN "events" ELSE "series"]
    /\ Stepped(p)
    /\ UNCHANGED <<settings, session_state, source_files, transactions, merchants, aliases, events, now>>

\* one repo.add_event of _events_for_series or of _events_for_anomalies
EventStep(p) ==
    /\ pc[p] \in {"events", "anomalies"}
    /\ loc[p].evs # <<>>
    /\ events' = add_event(events, Head(loc[p].evs), NoKey)
    /\ loc' = [loc EXCEPT ![p].evs = Tail(@)]
    /\ Stepped(p)
    /\ UNCHANGED <<settings, session_state, source_files, transactions, merchants, aliases, series, now, pc>>

\* engine.py lines 158-166: _events_for_anomalies reads the merchants and the
\* transactions and runs the three detectors
AnomalyScan(p) ==
    /\ pc[p] = "events"
    /\ loc[p].evs = <<>>
    /\ loc' = [loc EXCEPT ![p].evs = AnomalyEvents(transactions, merchants)]
    /\ pc' = [pc EXCEPT ![p] = "anomalies"]
    /\ Stepped(p)
    /\ UNCHANGED <<settings, session_state, source_files, transactions, merchants, aliases, series, events, now>>

\* engine.py line 96: recompute returns
Finish(p) ==
    /\ pc[p] = "anomalies"
    /\ loc[p].evs = <<>>
    /\ pc' = [pc EXCEPT ![p] = "done"]
    /\ loc' = [loc EXCEPT ![p] = [NoLoc EXCEPT !.series0 = loc[p].series0,
                                               !.events0 = loc[p].events0]]
    /\ Stepped(p)
    /\ UNCHANGED <<settings, session_state, source_files, transactions, merchants, aliases, series, events, now>>

\* the next call of the run raises (the store refuses the write, a detector
\* raises): nothing catches it in recompute or in its callers' commands, and what
\* the run committed so far stays
Fail(p) ==
    /\ pc[p] \in {"clear", "series", "events", "anomalies"}
    /\ pc' = [pc EXCEPT ![p] = "failed"]
    /\ loc' = [loc EXCEPT ![p] = [NoLoc EXCEPT !.series0 = loc[p].series0,
                                               !.events0 = loc[p].events0]]
    /\ Stepped(p)
    /\ UNCHANGED <<settings, session_state, source_files, transactions, merchants, aliases, series, events, now>>

NextSteps ==
    \E p \in Procs :
        \/ Resolve(p)
        \/ \E n \in 0..(Cardinality(transactions) - 1) : FailResolve(p, n)
        \/ Clear(p)
        \/ SeriesStep(p)
        \/ EventStep(p)
        \/ AnomalyScan(p)
        \/ Finish(p)
        \/ Fail(p)

SpecSteps == InitSteps /\ [][NextSteps]_vars

\* C1: when a step of a recompute raises, the series and the events committed
\* before that run started are still in the store, unchanged.
FailedRunKeepsDerived ==
    \A p \in Procs :
        (pc[p] = "failed" /\ \A q \in Procs \ {p} : pc[q] = "idle")
            => (series = loc[p].series0 /\ events = loc[p].events0)

\* C5: the series table holds at most one row per merchant.
OneSeriesPerMerchant ==
    \A s1, s2 \in series : s1.merchant_id = s2.merchant_id => s1 = s2

\* C5 witness: two runs, one after the other, each persisted the series of the
\* same merchants
SeriesPersistedTwice ==
    /\ \A p \in Procs : pc[p] = "done"
    /\ obs.serial
    /\ series # {}

SameEvent(e1, e2) ==
    /\ e1.type = e2.type
    /\ e1.title = e2.title
    /\ e1.txn_id = e2.txn_id
    /\ e1.merchant_id = e2.merchant_id
    /\ e1.evidence_json = e2.evidence_json

NoEventTwice == \A e1, e2 \in events : SameEvent(e1, e2) => e1 = e2

NoDanglingSeries == \A e \in events : e.series_id # 0 => \E s \in series : s.id = e.series_id

\* C7: recompute runs that do not overlap leave no event twice and no event
\* whose series is missing; the runs hold no lock, and two runs that interleave
\* between their commits reach a final state with both.
SerializedRunsClean ==
    (obs.serial /\ \A p \in Procs : pc[p] \in {"idle", "done"})
        => (NoEventTwice /\ NoDanglingSeries)

\* C7 witness: two interleaved runs have both returned, and the store holds the
\* same event twice and an event whose series row the other run deleted
RaceReached ==
    /\ \A p \in Procs : pc[p] = "done"
    /\ ~obs.serial
    /\ ~NoEventTwice
    /\ ~NoDanglingSeries
(***************************************************************************)
(* Encryption at rest: pages/4_Settings.py, Home.py and the Repo each      *)
(* caller builds.  A passphrase is a one-character string.  While          *)
(* encryption is enabled the salt of the settings table does not change,   *)
(* so load_key gives one key per passphrase, written as the passphrase.    *)
(***************************************************************************)
\* the passphrase encryption is enabled with, and a passphrase that is not it
OwnerPassphrase == "k"

Passphrases == {OwnerPassphrase, "w"}

Salt == "s"

StrSubsentryOk == <<"s", "u", "b", "s", "e", "n", "t", "r", "y", "-", "o", "k">>

\* load_key(passphrase, salt_b64).key
load_key(passphrase, salt_b64) == passphrase

\* repo.py _is_encrypted
_is_encrypted(v) == v # <<>> /\ StartsWith(v, StrEncPrefix)

\* (repo.get_setting("encryption_enabled") == "1") or bool(repo.get_setting("encryption_salt_b64"))
_encryption_enabled(st) == st.encryption_enabled \/ st.encryption_salt_b64 # NoKey

\* get_repo of the pages: the key of the Repo they work with
get_repo(ss) ==
    IF ss.encryption_salt_b64 # NoKey /\ ss.passphrase # NoKey
    THEN load_key(ss.passphrase, ss.encryption_salt_b64)
    ELSE NoKey

\* mcp_server.py _maybe_key: the keys it can return.  Engine.execute of a plain
\* string exists in some releases of SQLAlchemy only; where it raises, the except
\* clause returns None
_maybe_key(st, passphrase) ==
    {NoKey} \cup (IF st.encryption_salt_b64 # NoKey
                  THEN {load_key(passphrase, st.encryption_salt_b64)} ELSE {})

\* Repo.encrypt_existing_plaintext: the transactions and the events after it
encrypt_existing_plaintext(txns, evs, key) ==
    [transactions |-> {IF t.description_raw # <<>> /\ ~_is_encrypted(t.description_raw)
                       THEN [t EXCEPT !.description_raw = maybe_encrypt(key, @)]
                       ELSE t : t \in txns},
     events |-> {IF e.evidence_json.enc = NoKey
                 THEN [e EXCEPT !.evidence_json.enc = key]
                 ELSE e : e \in evs}]

\* self.decrypt_field(ev.evidence_json): the stored JSON text, the text
\* "<encrypted>", which is no JSON, or an exception of AESGCM.decrypt
DecryptEvidence(key, evidence_json) ==
    IF evidence_json.enc = NoKey THEN [raised |-> FALSE, is_json |-> TRUE]
    ELSE IF key = NoKey THEN [raised |-> FALSE, is_json |-> FALSE]
    ELSE [raised |-> key # evidence_json.enc, is_json |-> key = evidence_json.enc]

\* json.loads(self.decrypt_field(ev.evidence_json))
LoadEvidence(key, evidence_json) ==
    IF DecryptEvidence(key, evidence_json).raised \/ ~DecryptEvidence(key, evidence_json).is_json
    THEN [raised |-> TRUE, kind |-> "none", value |-> <<>>]
    ELSE [raised |-> FALSE, kind |-> "value", value |-> evidence_json.json]

\* a read of the evidence without the try
GetEvidenceUnguarded(evs, event_id, key) ==
    IF ~\E e \in evs : e.id = event_id
    THEN [raised |-> FALSE, kind |-> "empty", value |-> <<>>]
    ELSE LoadEvidence(key, (CHOOSE e \in evs : e.id = event_id).evidence_json)

\* Repo.get_event_evidence: {} is kind "empty", the placeholder
\* {"error": "Could not decrypt/parse evidence"} is kind "error"
get_event_evidence(evs, event_id, key) ==
    IF ~\E e \in evs : e.id = event_id
    THEN [raised |-> FALSE, kind |-> "empty", value |-> <<>>]
    ELSE IF LoadEvidence(key, (CHOOSE e \in evs : e.id = event_id).evidence_json).raised
    THEN [raised |-> FALSE, kind |-> "error", value |-> <<>>]
    ELSE LoadEvidence(key, (CHOOSE e \in evs : e.id = event_id).evidence_json)

\* the statements imported: three monthly charges of one merchant, one charge
\* of another
CryptoBatches ==
    {[i \in 1..3 |-> [posted_at |-> Day(30 * (i - 1)), amount |-> 9990,
                      description_raw |-> StrABCDEF]],
     <<[posted_at |-> Day(45), amount |-> 9990, description_raw |-> StrXYZ]>>}

\* pages/4_Settings.py, the button Enable encryption
EnableEncryption(passphrase) ==
    /\ settings.encryption_salt_b64 = NoKey
    /\ settings' = [encryption_enabled |-> TRUE, encryption_salt_b64 |-> Salt,
                    encryption_check |-> maybe_encrypt(load_key(passphrase, Salt), StrSubsentryOk)]
    /\ obs' = [NoObs EXCEPT !.op = "settings", !.imports = obs.imports]
    /\ UNCHANGED <<source_files, transactions, merchants, aliases, series, events,
                   session_state, now, pc, loc>>

\* Home.py lines 36-41: the passphrase gives the key that decrypts the check value
PassphraseAccepted(st, key) ==
    /\ st.encryption_salt_b64 # NoKey
    /\ st.encryption_check # <<>> =>
           /\ ~maybe_decrypt(key, st.encryption_check).raised
           /\ maybe_decrypt(key, st.encryption_check).text = StrSubsentryOk

\* Home.py, the button Unlock
Unlock(passphrase) ==
    /\ _encryption_enabled(settings)
    /\ session_state.encryption_key = NoKey
    /\ session_state' =
           IF PassphraseAccepted(settings, load_key(passphrase, settings.encryption_salt_b64))
           THEN [session_state EXCEPT
                     !.encryption_key = load_key(passphrase, settings.encryption_salt_b64)]
           ELSE session_state
    /\ obs' = [NoObs EXCEPT !.op = "unlock", !.imports = obs.imports]
    /\ UNCHANGED <<source_files, transactions, merchants, aliases, series, events,
                   settings, now, pc, loc>>

\* Home.py, the button Lock now
Lock ==
    /\ _encryption_enabled(settings)
    /\ session_state.encryption_key # NoKey
    /\ session_state' = [session_state EXCEPT !.encryption_key = NoKey]
    /\ obs' = [NoObs EXCEPT !.op = "lock", !.imports = obs.imports]
    /\ UNCHANGED <<source_files, transactions, merchants, aliases, series, events,
                   settings, now, pc, loc>>

\* pages/4_Settings.py, the button Encrypt existing plaintext data now
EncryptExisting ==
    /\ session_state.encryption_key # NoKey
    /\ transactions' = encrypt_existing_plaintext(transactions, events,
                                                  session_state.encryption_key).transactions
    /\ events' = encrypt_existing_plaintext(transactions, events,
                                            session_state.encryption_key).events
    /\ obs' = [NoObs EXCEPT !.op = "encrypt_existing", !.imports = obs.imports]
    /\ UNCHANGED <<source_files, merchants, aliases, series, settings, session_state,
                   now, pc, loc>>

\* pages/0_Statements.py lines 46-48: the page stops while encryption is locked
StatementsLocked == _encryption_enabled(settings) /\ session_state.encryption_key = NoKey

\* pages/0_Statements.py, the import button for one file
StatementsImport(rows) ==
    /\ ~StatementsLocked
    /\ obs.imports < MaxImports
    /\ LET sfid == create_source_file(source_files)
           ins == insert_transactions(transactions, sfid, rows, get_repo(session_state))
           r == recompute(ins.transactions, merchants, aliases, series, events, now,
                          get_repo(session_state))
       IN  /\ Cardinality(ins.transactions) <= MaxTxns
           /\ source_files' = source_files \cup {sfid}
           /\ RanRecompute(r, "import", ins, get_repo(session_state))
    /\ UNCHANGED <<settings, session_state, aliases, now, pc, loc>>

\* pages/0_Statements.py, the recompute button
StatementsRecompute ==
    /\ ~StatementsLocked
    /\ obs.op # "none"
    /\ RanRecompute(recompute(transactions, merchants, aliases, series, events, now,
                              get_repo(session_state)),
                    "recompute", NoInsert, get_repo(session_state))
    /\ UNCHANGED <<settings, session_state, source_files, aliases, now, pc, loc>>

\* mcp_server.py import_statement_csv, the server started with a passphrase
McpImport(rows, key) ==
    /\ obs.imports < MaxImports
    /\ LET sfid == create_source_file(source_files)
           ins == insert_transactions(transactions, sfid, rows, key)
           r == recompute(ins.transactions, merchants, aliases, series, events, now, key)
       IN  /\ Cardinality(ins.transactions) <= MaxTxns
           /\ source_files' = source_files \cup {sfid}
           /\ RanRecompute(r, "mcp_import", ins, key)
    /\ UNCHANGED <<settings, session_state, aliases, now, pc, loc>>

\* pages/3_Alerts.py line 107 and mcp_server.py explain_alert: the evidence of
\* the event with id event_id read through a Repo that holds key
ReadEvidence(event_id, key) ==
    /\ obs.op # "none"
    /\ obs' = [NoObs EXCEPT !.op = "evidence", !.imports = obs.imports, !.key = key,
                            !.call = <<event_id>>,
                            !.result = get_event_evidence(events, event_id, key)]
    /\ UNCHANGED <<source_files, transactions, merchants, aliases, series, events,
                   settings, session_state, now, pc, loc>>

NextCrypto ==
    \/ EnableEncryption(OwnerPassphrase)
    \/ \E passphrase \in Passphrases : Unlock(passphrase)
    \/ Lock
    \/ EncryptExisting
    \/ \E rows \in CryptoBatches : StatementsImport(rows)
    \/ StatementsRecompute
    \/ \E rows \in CryptoBatches, passphrase \in Passphrases :
           \E key \in _maybe_key(settings, passphrase) : McpImport(rows, key)
    \/ \E event_id \in 1..(Cardinality(events) + 1) :
           \E key \in {get_repo(session_state)}
                      \cup UNION {_maybe_key(settings, passphrase) : passphrase \in Passphrases} :
               ReadEvidence(event_id, key)

InitCrypto == Init /\ now = Day(61)

SpecCrypto == InitCrypto /\ [][NextCrypto]_vars

\* the stored description cannot be read by a Repo that holds key
Unreadable(description_raw, key) ==
    _is_encrypted(description_raw) /\ (key = NoKey \/ decrypt_str(key, description_raw).raised)

\* the normalized description of t as a Repo that holds key reads it
CleanedWith(t, key) == clean_merchant(maybe_decrypt(key, t.description_raw).text)

\* C11: resolve_merchants treats a transaction whose description its Repo cannot
\* read (it is encrypted and the Repo holds no key, or not the key that decrypts
\* it) as one with an empty description: the run does not raise, the transaction
\* is left without a merchant, and every merchant the run creates is the merchant
\* of the hint of a transaction it can read.
UnreadableTreatedAsEmpty ==
    [][obs'.op \in {"import", "recompute", "mcp_import"} =>
          /\ ~obs'.raised
          /\ \A t \in transactions' :
                 Unreadable(t.description_raw, obs'.key) => t.merchant_id = 0
          /\ \A m \in merchants' \ merchants :
                 \E t \in transactions' :
                     /\ ~Unreadable(t.description_raw, obs'.key)
                     /\ m.canonical_name
                            = Upper(Strip(canonical_hint(CleanedWith(t, obs'.key))))]_vars

\* the stored evidence cannot be read by a Repo that holds key
EvidenceUnreadable(evidence_json, key) == evidence_json.enc # NoKey /\ key # evidence_json.enc

\* what a read of the evidence of the event with id event_id has to return
EvidenceAsExpected(evs, event_id, key, result) ==
    IF \A e \in evs : e.id # event_id THEN result.kind = "empty"
    ELSE IF EvidenceUnreadable((CHOOSE e \in evs : e.id = event_id).evidence_json, key)
    THEN result.kind = "error"
    ELSE /\ result.kind = "value"
         /\ result.value = (CHOOSE e \in evs : e.id = event_id).evidence_json.json

\* C18: get_event_evidence never raises and changes nothing in the store; for an
\* id no event has it returns the empty mapping, for evidence that cannot be
\* decrypted or parsed the placeholder with the error message, and the stored
\* evidence otherwise.
EvidenceReadIsSafe ==
    [][obs'.op = "evidence" =>
          /\ <<source_files, transactions, merchants, aliases, series, events, settings>>'
                 = <<source_files, transactions, merchants, aliases, series, events, settings>>
          /\ ~obs'.result.raised
          /\ EvidenceAsExpected(events, obs'.call[1], obs'.key, obs'.result)]_vars

\* C18 witness: the evidence of a stored event was read through a Repo that
\* cannot decrypt it, and the placeholder came back
EvidencePlaceholderReturned ==
    /\ obs.op = "evidence"
    /\ obs.result.kind = "error"
    /\ ~obs.result.raised
    /\ \E e \in events : e.id = obs.call[1] /\ EvidenceUnreadable(e.evidence_json, obs.key)

\* C19: while the session holds an encryption key, every transaction the import
\* button of the Statements page stores and every event its import and recompute
\* buttons store are encrypted.
WrittenEncryptedWhileUnlocked ==
    [][(obs'.op \in {"import", "recompute"} /\ session_state.encryption_key # NoKey) =>
          /\ \A t \in transactions' :
                 (\A u \in transactions : u.id # t.id) => _is_encrypted(t.description_raw)
          /\ \A e \in events' : e.evidence_json.enc # NoKey]_vars

(***************************************************************************)
(* The per-series checks of _events_for_series on the ledger of one        *)
(* merchant: a statement of monthly charges is imported into a new         *)
(* database and recompute runs.                                            *)
(***************************************************************************)
\* bound of the model: the number of monthly charges of a statement
MaxLedger == 12

\* the amounts of a ledger: of the charges before the last four, of the three
\* charges before the last, and of the last charge
AmountProfiles ==
    {<<9990, 9990, 9990>>, <<9990, 9990, 11500>>, <<9990, 9990, 12500>>,
     <<9990, 9990, 14990>>, <<9990, 9990, 4990>>, <<25000, 9990, 9990>>,
     <<25000, 9990, 17000>>, <<50000, 50000, 54000>>, <<50000, 50000, 56000>>}

\* the amount of charge i of n
LedgerAmount(i, n, profile) ==
    IF i = n THEN profile[3] ELSE IF i < n - 3 THEN profile[1] ELSE profile[2]

\* row i of a statement of n charges of one merchant, one a month at noon; when
\* k > 0 charge k + 1 is charge k billed again 2 hours later
LedgerRow(i, n, k, profile) ==
    [posted_at |-> IF k > 0 /\ i = k + 1 THEN Day(30 * (k - 1)) + 720 + 120
                   ELSE IF k > 0 /\ i > k + 1 THEN Day(30 * (i - 2)) + 720
                   ELSE Day(30 * (i - 1)) + 720,
     amount |-> IF k > 0 /\ i = k + 1 THEN LedgerAmount(k, n, profile)
                ELSE LedgerAmount(i, n, profile),
     description_raw |-> StrABCDEF]

\* a charge of another amount one hour after charge k
RowBetween(n, k, profile) ==
    [posted_at |-> Day(30 * (k - 1)) + 720 + 60,
     amount |-> 3 * LedgerAmount(k, n, profile),
     description_raw |-> StrABCDEF]

Ledger(n, k, profile, between) ==
    [i \in 1..n |-> LedgerRow(i, n, k, profile)]
        \o (IF between THEN <<RowBetween(n, k, profile)>> ELSE <<>>)

\* the statements: n charges, the duplicate at k (none when k = 0), the amounts
LedgerShapes ==
    {q \in (2..MaxLedger) \X (0..(MaxLedger - 1)) \X AmountProfiles : q[2] < q[1]}

\* the gaps, in days, between the three charges of a statement, and their amounts:
\* equal, all zero, of median zero, and spread
GapValues == {0, 7, 14, 21, 28, 30, 31, 198, 365, 400}

AmountTriples ==
    {<<9990, 9990, 9990>>, <<0, 0, 0>>, <<-5000, 5000, 0>>, <<9990, 14990, 4990>>}

GapLedger(g1, g2, amounts) ==
    [i \in 1..3 |->
        [posted_at |-> Day(IF i = 1 THEN 0 ELSE IF i = 2 THEN g1 ELSE g1 + g2) + 720,
         amount |-> amounts[i],
         description_raw |-> StrABCDEF]]

Ledgers ==
    {Ledger(q[1], q[2], q[3], FALSE) : q \in LedgerShapes}
        \cup {Ledger(q[1], q[2], q[3], TRUE) :
                  q \in {x \in LedgerShapes : x[2] > 0 /\ x[3] = <<9990, 9990, 9990>>}}
        \cup {GapLedger(g1, g2, amounts) :
                  g1 \in GapValues, g2 \in GapValues, amounts \in AmountTriples}

\* cli.py cmd_import on a new database
ImportStatement(rows) ==
    /\ source_files = {}
    /\ LET sfid == create_source_file(source_files)
           ins == insert_transactions(transactions, sfid, rows, NoKey)
           r == recompute(ins.transactions, merchants, aliases, series, events, now, NoKey)
       IN  /\ source_files' = source_files \cup {sfid}
           /\ RanRecompute(r, "import", ins, NoKey)
    /\ UNCHANGED <<settings, session_state, aliases, now, pc, loc>>

NextEvents ==
    \/ \E rows \in Ledgers : ImportStatement(rows)
    \/ CmdRecompute

InitEvents == Init /\ now = Day(200)

SpecEvents == InitEvents /\ [][NextEvents]_vars

\* the transactions of the merchant of t, and those of them dated after t
OfMerchant(txns, t) == {u \in txns : u.merchant_id = t.merchant_id}

Later(txns, t) == {u \in OfMerchant(txns, t) : u.posted_at > t.posted_at}

\* a and b are charges of one merchant with equal amounts, b 2 hours after a
TwoHoursApart(a, b) ==
    /\ a.merchant_id # 0
    /\ b.merchant_id = a.merchant_id
    /\ b.posted_at - a.posted_at = 120
    /\ b.amount = a.amount

\* the possible_duplicate events stored for the pair a, b
DuplicateEventsFor(evs, a, b) ==
    {e \in evs : /\ e.type = "possible_duplicate"
                 /\ e.merchant_id = a.merchant_id
                 /\ e.evidence_json.json.a.txn_id = a.id
                 /\ e.evidence_json.json.b.txn_id = b.id}

\* the merchant of a and b has a series (at least 3 transactions), b is the
\* transaction that follows a in time, and both are among its 10 latest
ScannedPair(txns, a, b) ==
    /\ Cardinality(OfMerchant(txns, a)) >= 3
    /\ \A u \in OfMerchant(txns, a) \ {a, b} :
           u.posted_at < a.posted_at \/ u.posted_at > b.posted_at
    /\ Cardinality(Later(txns, a)) <= 9

\* C12: after recompute, every two transactions of one merchant that are 2 hours
\* apart and have equal amounts have exactly one possible_duplicate event,
\* whatever other transactions the merchant has.
DuplicatePairFlagged ==
    obs.op \in {"import", "recompute"} =>
        \A a, b \in transactions :
            TwoHoursApart(a, b) => Cardinality(DuplicateEventsFor(events, a, b)) = 1

\* C12 as it holds: the pair has exactly one possible_duplicate event when its
\* merchant has at least 3 transactions, no transaction of the merchant is dated
\* from the first of the two to the second, and both are among the merchant's 10
\* latest transactions.
ScannedDuplicatePairFlagged ==
    obs.op \in {"import", "recompute"} =>
        \A a, b \in transactions :
            (TwoHoursApart(a, b) /\ ScannedPair(transactions, a, b))
                => Cardinality(DuplicateEventsFor(events, a, b)) = 1

\* C12 witness: a merchant with more than 10 transactions, a repeated charge among
\* its 10 latest, and the event stored for it
ScannedDuplicateSeen ==
    /\ obs.op = "import"
    /\ \E a, b \in transactions :
           /\ TwoHoursApart(a, b)
           /\ ScannedPair(transactions, a, b)
           /\ Cardinality(OfMerchant(transactions, a)) > 10
           /\ Cardinality(Later(transactions, b)) >= 1
           /\ DuplicateEventsFor(events, a, b) # {}

\* the latest transaction of the merchant of t is t
IsLatest(txns, t) == Later(txns, t) = {}

\* the amounts of the up to 6 transactions of the merchant that precede its
\* latest transaction t
PrecedingAmounts(txns, t) ==
    LET window == {u \in OfMerchant(txns, t) \ {t} : Cardinality(Later(txns, u)) <= 6}
    IN  [i \in 1..Cardinality(window) |-> RowsById(window)[i].amount]

\* last, in mills, differs from the doubled median base by more than
\* max(10% of the magnitude of the median, 2.0)
Deviates(last, base) ==
    /\ 10 * Abs(2 * last - base) > Abs(base)
    /\ Abs(2 * last - base) > 2 * 2 * MillsPerUnit

PriceChangeEventsOf(evs, merchant_id) ==
    {e \in evs : e.type = "price_change" /\ e.merchant_id = merchant_id}

\* C13: after recompute, a merchant with at least 5 transactions has exactly one
\* price_change event, of severity warn and with the median of the up to 6
\* amounts before the latest as baseline and the latest amount in its evidence,
\* when the latest amount differs from that median by more than
\* max(10% of its magnitude, 2.0), and no price_change event otherwise.
PriceChangeWhenDeviates ==
    obs.op \in {"import", "recompute"} =>
        \A t \in transactions :
            (t.merchant_id # 0 /\ IsLatest(transactions, t)
                 /\ Cardinality(OfMerchant(transactions, t)) >= 5)
            => IF Deviates(t.amount, median(PrecedingAmounts(transactions, t)))
               THEN /\ Cardinality(PriceChangeEventsOf(events, t.merchant_id)) = 1
                    /\ \A e \in PriceChangeEventsOf(events, t.merchant_id) :
                           /\ e.severity = "warn"
                           /\ e.evidence_json.json.baseline_median
                                  = median(PrecedingAmounts(transactions, t))
                           /\ e.evidence_json.json.last_amount = t.amount
               ELSE PriceChangeEventsOf(events, t.merchant_id) = {}

\* C13 witness: five charges of 9.99 and one of 14.99, and the event with
\* baseline 9.99 and last amount 14.99
PriceChangeSeen ==
    /\ obs.op = "import"
    /\ Cardinality(transactions) = 6
    /\ \E t \in transactions :
           /\ IsLatest(transactions, t)
           /\ t.amount = 14990
           /\ \A u \in transactions \ {t} : u.amount = 9990
    /\ \E e \in events :
           /\ e.type = "price_change"
           /\ e.evidence_json.json.baseline_median = 2 * 9990
           /\ e.evidence_json.json.last_amount = 14990

(***************************************************************************)
(* The pure functions of core/normalize.py, core/recurring.py and          *)
(* core/stats.py applied to one input: obs.call holds the name of the       *)
(* function and its arguments, obs.result the value it returned.            *)
(***************************************************************************)
\* what a description starts with: nothing, another processor, PAYPAL with and
\* without the star, at the start and after another word
DescriptionHeads ==
    {<<>>,
     <<"S", "Q", " ">>,
     <<"P", "A", "Y", "P", "A", "L", " ">>,
     <<"P", "A", "Y", "P", "A", "L", " ", "*">>,
     <<"p", "a", "y", "p", "a", "l", "*", " ", " ", " ">>,
     <<"P", "A", "Y", "P", "A", "L", " ", "*", " ">>,
     <<"P", "a", "y", "P", "a", "l", " ", " ">>,
     <<"S", "Q", " ", "P", "A", "Y", "P", "A", "L", " ", "*">>,
     <<"S", "Q", " ", "P", "A", "Y", "P", "A", "L", " ">>}

\* the merchant part of a description
DescriptionBodies ==
    {<<"N", "E", "T", "F", "L", "I", "X", ".", "C", "O", "M">>,
     <<"n", "e", "t", "f", "l", "i", "x", ".", "c", "o", "m">>,
     <<"N", "e", "t", "f", "l", "i", "x", ".", "c", "o", "m">>,
     <<"S", "T", "A", "R", "B", "U", "C", "K", "S">>,
     <<"D", "I", "S", "C", "A", "R", "D">>,
     <<"X">>}

\* what a description ends with: a card suffix with stars, with the word CARD,
\* with both, bare digits, and digit runs too short and too long
DescriptionTails ==
    {<<>>,
     <<"*", "1", "2", "3", "4">>,
     <<" ", "*", "1", "2">>,
     <<" ", "*", "*", "1", "2", "3", "4", "5", "6">>,
     <<"*", "1">>,
     <<"*", "1", "2", "3", "4", "5", "6", "7">>,
     <<" ", "C", "A", "R", "D", " ", "1", "2", "3", "4">>,
     <<" ", "c", "a", "r", "d", "1", "2", "3", "4">>,
     <<" ", "C", "A", "R", "D", " ", " ", " ", " ", "9", "8", "7", "6">>,
     <<" ", "C", "A", "R", "D", "*", "1", "2", "3", "4">>,
     <<" ", "1", "2">>,
     <<" ", "#", "1", "2", "3">>}

RawDescriptions ==
    {h \o b \o t : h \in DescriptionHeads, b \in DescriptionBodies, t \in DescriptionTails}

\* bounds of the model: the number of observations of a series, the first months
\* a series can start in, and the length of a list of numbers
MaxObs == 5

MaxStart == 14

MaxList == 4

\* the calendar from January 2023: month mi is month mi % 12 + 1 of year
\* 2023 + (mi \div 12)
IsLeap(y) == y % 4 = 0 /\ (y % 100 # 0 \/ y % 400 = 0)

DaysInMonth(mi) ==
    LET m == (mi % 12) + 1
    IN  IF m = 2 THEN (IF IsLeap(2023 + (mi \div 12)) THEN 29 ELSE 28)
        ELSE IF m \in {4, 6, 9, 11} THEN 30 ELSE 31

\* the number of days from 1 January 2023 to the first day of month mi
RECURSIVE MonthStart(_)
MonthStart(mi) == IF mi = 0 THEN 0 ELSE MonthStart(mi - 1) + DaysInMonth(mi - 1)

\* datetime(year, month, day, hour, minute) in minutes
DateTime(mi, day, minutes) == (MonthStart(mi) + day - 1) * MinutesPerDay + minutes

\* the time of day of observation i of n
TimePatterns == {"midnight", "noon", "last earlier", "alternating"}

TimeOfDay(pattern, i, n) ==
    IF pattern = "midnight" THEN 0
    ELSE IF pattern = "noon" THEN 720
    ELSE IF pattern = "last earlier" THEN (IF i = n THEN 660 ELSE 720)
    ELSE (IF i % 2 = 1 THEN 720 ELSE 600)

\* n observations on day `day` of consecutive months from month start
MonthlyDates(start, day, n, pattern) ==
    [i \in 1..n |-> DateTime((start + i) - 1, day, TimeOfDay(pattern, i, n))]

\* n observations a week apart
WeeklyDates(start, day, n, pattern) ==
    [i \in 1..n |-> DateTime(start, day, TimeOfDay(pattern, i, n)) + 7 * (i - 1) * MinutesPerDay]

MonthlyShapes ==
    {q \in (0..MaxStart) \X {1, 15, 28, 29, 30, 31} \X (3..MaxObs) \X TimePatterns :
        \A i \in 1..q[3] : q[2] <= DaysInMonth((q[1] + i) - 1)}

SeriesAmounts == {9990, -5000}

\* the arguments of detect_recurring: dates in the order of the statement or
\* newest first, and one amount for all
DetectCalls ==
    {<<"detect_recurring", MonthlyDates(q[1], q[2], q[3], q[4]), [i \in 1..q[3] |-> a]>> :
         q \in MonthlyShapes, a \in SeriesAmounts}
    \cup {<<"detect_recurring", Reverse(MonthlyDates(q[1], q[2], q[3], q[4])),
            [i \in 1..q[3] |-> 9990]>> : q \in {x \in MonthlyShapes : x[1] = 0}}
    \cup {<<"detect_recurring", WeeklyDates(0, 1, n, pattern), [i \in 1..n |-> 9990]>> :
             n \in 3..MaxObs, pattern \in TimePatterns}
    \cup {<<"detect_recurring",
            [i \in 1..3 |-> GapLedger(g1, g2, amounts)[i].posted_at], amounts>> :
             g1 \in GapValues, g2 \in GapValues, amounts \in AmountTriples}

ListValues == {-3, 0, 2, 5, 9}

NumberLists == UNION {[1..n -> ListValues] : n \in 1..MaxList}

PureCalls ==
    {<<"clean_merchant", raw>> : raw \in RawDescriptions}
        \cup DetectCalls
        \cup {<<"median", x>> : x \in NumberLists}
        \cup {<<"mad", x>> : x \in NumberLists}

InitPure ==
    /\ source_files = {}
    /\ transactions = {}
    /\ merchants = {}
    /\ aliases = {}
    /\ series = {}
    /\ events = {}
    /\ settings = NoSettings
    /\ session_state = NoSession
    /\ now = Day(61)
    /\ pc = [p \in Procs |-> "idle"]
    /\ loc = [p \in Procs |-> <<>>]
    /\ obs \in {[NoObs EXCEPT !.op = "input", !.call = c] : c \in PureCalls}

\* the function named in obs.call returned value
Returned(value) ==
    /\ obs' = [obs EXCEPT !.op = obs.call[1], !.result = value]
    /\ UNCHANGED <<source_files, transactions, merchants, aliases, series, events, settings,
                   session_state, now, pc, loc>>

CallCleanMerchant ==
    /\ obs.op = "input"
    /\ obs.call[1] = "clean_merchant"
    /\ Returned(clean_merchant(obs.call[2]))

CallDetectRecurring ==
    /\ obs.op = "input"
    /\ obs.call[1] = "detect_recurring"
    /\ Returned(detect_recurring(obs.call[2], obs.call[3], 3))

CallMedian ==
    /\ obs.op = "input"
    /\ obs.call[1] = "median"
    /\ Returned(median(obs.call[2]))

CallMad ==
    /\ obs.op = "input"
    /\ obs.call[1] = "mad"
    /\ Returned(mad(obs.call[2]))

NextPure ==
    \/ CallCleanMerchant
    \/ CallDetectRecurring
    \/ CallMedian
    \/ CallMad

SpecPure == InitPure /\ [][NextPure]_vars

\* the dates fall on one day of month in consecutive calendar months
MonthlySameDay(dates) ==
    \E start \in 0..MaxStart, day \in 1..31 :
        /\ \A i \in 1..Len(dates) : day <= DaysInMonth((start + i) - 1)
        /\ {dates[i] \div MinutesPerDay : i \in 1..Len(dates)}
               = {(MonthStart((start + i) - 1) + day) - 1 : i \in 1..Len(dates)}

\* 0.55 * gap_consistency + 0.45 * amt_stability > 0.8
ConfidenceAbove80(confidence) ==
    55 * confidence.gap_consistency[1] * confidence.amt_stability[2]
        + 45 * confidence.amt_stability[1] * confidence.gap_consistency[2]
    > 80 * confidence.gap_consistency[2] * confidence.amt_stability[2]

\* C14: for at least 3 observations of one amount dated on the same day of month
\* in consecutive calendar months, detect_recurring returns a series whose
\* period_days is 30 or 31 and whose confidence is above 0.8.
MonthlySnapsTo30Or31 ==
    (/\ obs.op = "detect_recurring"
     /\ Len(obs.call[2]) >= 3
     /\ MonthlySameDay(obs.call[2])
     /\ \A i \in 1..Len(obs.call[3]) : obs.call[3][i] = obs.call[3][1])
    => /\ ~obs.result.none
       /\ obs.result.period_days \in {30, 31}
       /\ ConfidenceAbove80(obs.result.confidence)

\* the number of positions of x that hold a value below v, and at most v
CountBelow(x, v) == Cardinality({i \in 1..Len(x) : x[i] < v})

CountAtMost(x, v) == Cardinality({i \in 1..Len(x) : x[i] <= v})

\* v is the element of rank k of x (the k-th smallest, counted with repeats)
HasRank(x, v, k) ==
    /\ \E i \in 1..Len(x) : x[i] = v
    /\ CountBelow(x, v) < k
    /\ CountAtMost(x, v) >= k

\* m2, a doubled value, is the middle element of x for an odd length and the mean
\* of the two middle elements for an even length
IsMiddle(x, m2) ==
    IF Len(x) % 2 = 1
    THEN \E v \in {x[i] : i \in 1..Len(x)} :
             HasRank(x, v, (Len(x) + 1) \div 2) /\ m2 = 2 * v
    ELSE \E lo, hi \in {x[i] : i \in 1..Len(x)} :
             /\ HasRank(x, lo, Len(x) \div 2)
             /\ HasRank(x, hi, (Len(x) \div 2) + 1)
             /\ m2 = lo + hi

\* C15: for a non-empty list, median is the middle element (odd length) or the
\* mean of the two middle elements (even length) and lies between the minimum
\* and the maximum of the list; mad of a list of equal elements is 0.
MedianIsMiddleAndMadOfConstantIsZero ==
    /\ obs.op = "median" =>
           /\ IsMiddle(obs.call[2], obs.result)
           /\ \A i \in 1..Len(obs.call[2]) :
                  (\A j \in 1..Len(obs.call[2]) : obs.call[2][j] >= obs.call[2][i])
                      => 2 * obs.call[2][i] <= obs.result
           /\ \A i \in 1..Len(obs.call[2]) :
                  (\A j \in 1..Len(obs.call[2]) : obs.call[2][j] <= obs.call[2][i])
                      => 2 * obs.call[2][i] >= obs.result
    /\ (obs.op = "mad" /\ \A i \in 1..Len(obs.call[2]) : obs.call[2][i] = obs.call[2][1])
           => obs.result = 0

\* C15 witness: the median of a list of even length whose two middle elements
\* differ, given out of order
MedianOfEvenListSeen ==
    /\ obs.op = "median"
    /\ obs.call[2] = <<9, -3, 5, 2>>
    /\ obs.result = 2 + 5

\* the prefix rule as the specification words it: PAYPAL at the very start of s,
\* followed or not by whitespace, '*' and whitespace, is removed
SubLeadingPaypal(s) ==
    IF Len(s) >= 6 /\ Upper(SubSeq(s, 1, 6)) = StrPAYPAL
          /\ (Len(s) = 6 \/ ~IsWordChar(s[7]))
    THEN LET rest == Drop(s, 6)
             k == SpanSpaces(rest)
         IN  IF Len(rest) > k /\ rest[k + 1] = "*"
             THEN Drop(rest, k + 1 + SpanSpaces(Drop(rest, k + 1)))
             ELSE Drop(rest, k)
    ELSE s

\* clean_merchant with that prefix rule in place of PAYPAL_PREFIX.sub
CleanWithLeadingPaypal(raw) ==
    Strip(SubMultispace(RemoveDotCom(SubCardSuffix(SubOtherChars(
        SubLeadingPaypal(Upper(Strip(raw))))))))

\* C16: clean_merchant removes PAYPAL, with or without a following '*' and
\* whitespace, when it stands at the start of the description and nowhere else:
\* its result is that of the normalization with the leading-prefix rule.
PaypalStrippedOnlyAtStart ==
    obs.op = "clean_merchant" => obs.result = CleanWithLeadingPaypal(obs.call[2])

\* s ends with a card suffix written with stars: \*+\d{2,6}\s*$
EndsWithStarDigits(s) ==
    \E i \in 0..(Len(s) - 1) :
        LET u == Drop(s, i) IN SpanStars(u) >= 1 /\ DigitsToEnd(Drop(u, SpanStars(u)))

\* s ends with the word CARD, optional whitespace and 2 to 6 digits
EndsWithCardWordDigits(s) ==
    \E i \in 0..(Len(s) - 1) :
        LET u == Drop(s, i)
        IN  /\ i = 0 \/ ~IsWordChar(s[i])
            /\ Len(u) >= 4
            /\ SubSeq(u, 1, 4) = StrCARD
            /\ DigitsToEnd(Drop(Drop(u, 4), SpanSpaces(Drop(u, 4))))

\* s ends with the letters CARD, optional whitespace and 2 to 6 digits
EndsWithCardDigits(s) ==
    \E i \in 0..(Len(s) - 1) :
        LET u == Drop(s, i)
        IN  /\ Len(u) >= 4
            /\ SubSeq(u, 1, 4) = StrCARD
            /\ DigitsToEnd(Drop(Drop(u, 4), SpanSpaces(Drop(u, 4))))

\* the description as the card-suffix step of clean_merchant receives it
BeforeCardSuffix(raw) == SubOtherChars(SubPaypalPrefix(Upper(Strip(raw)), FALSE))

\* clean_merchant without its card-suffix step
CleanWithoutCardSuffix(raw) == Strip(SubMultispace(RemoveDotCom(BeforeCardSuffix(raw))))

\* the digits that end s, trailing whitespace apart
RECURSIVE TrailingDigits(_)
TrailingDigits(s) ==
    IF s = <<>> THEN <<>>
    ELSE IF IsSpace(s[Len(s)]) THEN TrailingDigits(Take(s, Len(s) - 1))
    ELSE IF IsDigit(s[Len(s)]) THEN Append(TrailingDigits(Take(s, Len(s) - 1)), s[Len(s)])
    ELSE <<>>

CountedInserted(log) ==
    {log[i].row : i \in {j \in 1..Len(log) :
                            log[j].inserted = (IF j = 1 THEN 0 ELSE log[j - 1].inserted) + 1}}

\* C20: when insert_transactions has returned (inserted, skipped) for the rows of
\* an import, the ledger has grown by inserted transactions and holds every row
\* that was counted as inserted.
InsertedRowsAreStored ==
    [][obs'.op = "import" =>
          /\ Cardinality(transactions') = Cardinality(transactions) + obs'.inserted
          /\ \A r \in CountedInserted(obs'.log) :
                 \E t \in transactions' :
                     t.hash_dedupe = _dedupe_hash(r.posted_at, r.amount, r.description_raw)]_vars

\* the median of the gaps, doubled, between the dates given to detect_recurring,
\* in whole days and in chronological order
MedianGapOf(dates) ==
    LET ds == SortedInts(dates)
    IN  median([i \in 1..(Len(ds) - 1) |-> (ds[i + 1] - ds[i]) \div MinutesPerDay])

\* the distance of candidate p from the doubled median gap
PeriodDistance(p, gap2) == IF 2 * p >= gap2 THEN 2 * p - gap2 ELSE gap2 - 2 * p

\* C23: period_days is one of 7, 14, 28, 30, 31, 365, no candidate is nearer to
\* the median gap, and every candidate as near stands later in the list (the
\* list is ascending, so on a tie the smaller candidate is returned).
PeriodIsNearestCandidate ==
    obs.op = "detect_recurring" =>
        LET gap2 == MedianGapOf(obs.call[2])
            period == obs.result.period_days
        IN  /\ period \in {7, 14, 28, 30, 31, 365}
            /\ obs.result.gap_median = gap2
            /\ \A p \in {7, 14, 28, 30, 31, 365} :
                   /\ PeriodDistance(period, gap2) <= PeriodDistance(p, gap2)
                   /\ PeriodDistance(period, gap2) = PeriodDistance(p, gap2) => period <= p

\* C23 witness: median gaps of 21, 29 and 30.5 days are ties; one of 21 days
\* came back as 14
TiedMedianGapSeen ==
    /\ obs.op = "detect_recurring"
    /\ MedianGapOf(obs.call[2]) = 2 * 21
    /\ obs.result.period_days = 14

\* C24: every series row recompute has persisted carries a confidence between 0
\* and 1: both ratios are well-formed fractions and their weighted sum
\* 0.55 * gap_consistency + 0.45 * amt_stability is at least 0 and at most 1,
\* whatever the dates and the signed amounts were.
SeriesConfidenceInUnitInterval ==
    \A s \in series :
        /\ s.confidence.gap_consistency[1] >= 0
        /\ s.confidence.gap_consistency[2] > 0
        /\ s.confidence.amt_stability[1] >= 0
        /\ s.confidence.amt_stability[2] > 0
        /\ WeightedAtLeast(s.confidence, 0)
        /\ WeightedAtMost(s.confidence, 100)

\* C24 witness: a series whose amounts have median 0 and whose charges carry
\* one timestamp (every gap is 0 days) has been persisted
DegenerateSeriesPersisted ==
    \E s \in series :
        /\ s.amount_median = 0
        /\ s.amount_mad > 0
        /\ s.gap_median = 0
        /\ \A t \in transactions : \A u \in transactions : t.posted_at = u.posted_at

\* the transactions assigned to merchant m
AssignedTo(txns, m) == {t \in txns : t.merchant_id = m.id}

\* C28: once a recompute has completed, a merchant has a series row exactly when
\* at least 3 transactions are assigned to it.
SeriesIffThreeTransactions ==
    (obs.op \in {"import", "recompute"} /\ ~obs.raised) =>
        \A m \in merchants :
            (\E s \in series : s.merchant_id = m.id)
                <=> Cardinality(AssignedTo(transactions, m)) >= 3

\* C28 witness: after a recompute one merchant with exactly 3 transactions has a
\* series row
ThreeTransactionsHaveSeries ==
    /\ obs.op \in {"import", "recompute"}
    /\ ~obs.raised
    /\ \E m \in merchants :
           /\ Cardinality(AssignedTo(transactions, m)) = 3
           /\ \E s \in series : s.merchant_id = m.id

\* the transactions of merchant m in the chronological order of the per-series
\* checks
Chronological(txns, m) == Reverse(list_transactions_for_merchant(txns, m.id))

\* the timestamps of a and b are within 36 hours and the amounts differ by no
\* more than max(2% of the magnitude of the amount of a, 1.0)
WithinDuplicateLimits(a, b) ==
    /\ b.posted_at - a.posted_at <= 36 * 60
    /\ a.posted_at - b.posted_at <= 36 * 60
    /\ 100 * Abs(b.amount - a.amount) <= Max2(2 * Abs(a.amount), 100 * MillsPerUnit)

\* pair i of n transactions is one of the last min(pairs, n - 1) consecutive pairs
AmongLastPairs(i, n, pairs) == i >= 1 /\ i <= n - 1 /\ i >= n - pairs

\* the possible_duplicate events of merchant m are those of the last
\* min(pairs, n - 1) consecutive pairs that qualify, one warn event each
DuplicateEventsOfLastPairs(m, pairs) ==
    LET tx == Chronological(transactions, m)
        n == Len(tx)
        evs == {e \in events : e.type = "possible_duplicate" /\ e.merchant_id = m.id}
    IN  /\ \A e \in evs : e.severity = "warn"
        /\ \A i \in 1..(n - 1) :
               Cardinality(DuplicateEventsFor(events, tx[i], tx[i + 1]))
                   = IF AmongLastPairs(i, n, pairs) /\ WithinDuplicateLimits(tx[i], tx[i + 1])
                     THEN 1 ELSE 0
        /\ Cardinality(evs) = Cardinality({i \in 1..(n - 1) :
                                  /\ AmongLastPairs(i, n, pairs)
                                  /\ WithinDuplicateLimits(tx[i], tx[i + 1])})

\* C22: after recompute, for every merchant with a series (n >= 3 transactions
\* in chronological order) the possible_duplicate events are one warn event for
\* each of the last min(10, n - 1) consecutive pairs whose timestamps are within
\* 36 hours and whose amounts differ by at most max(2% of the first amount's
\* magnitude, 1.0), and no other.
LastTenPairsScanned ==
    (obs.op \in {"import", "recompute"} /\ ~obs.raised) =>
        \A m \in merchants :
            Len(Chronological(transactions, m)) >= 3 => DuplicateEventsOfLastPairs(m, 10)

\* the phases of a recompute run in the order of engine.py lines 64-96
PhaseRank(phase) ==
    CASE phase = "idle" -> 0
      [] phase = "clear" -> 1
      [] phase = "series" -> 2
      [] phase = "events" -> 3
      [] phase = "anomalies" -> 4
      [] phase = "done" -> 5
      [] phase = "failed" -> 5

\* the step taken is a step of run p
StepOf(p) == pc'[p] # pc[p] \/ loc'[p] # loc[p]

\* what a step of run p may do, by the phase the run is in: merchant assignments
\* are written only by the first step, the step after it empties series and
\* events, series rows are inserted only after that, events only after the
\* last series row, and a run never goes back to an earlier phase
PhaseOrderStep(p) ==
    /\ PhaseRank(pc'[p]) >= PhaseRank(pc[p])
    /\ (transactions' # transactions \/ merchants' # merchants) => pc[p] = "idle"
    /\ pc[p] = "idle" => pc'[p] \in {"clear", "failed"}
    /\ (pc[p] = "clear" /\ pc'[p] # "failed") =>
           (series' = {} /\ events' = {} /\ pc'[p] \in {"series", "events"})
    /\ (series' \ series # {}) => (pc[p] = "series" /\ events' = events)
    /\ (events' \ events # {}) => (pc[p] \in {"events", "anomalies"} /\ series' = series)
    /\ pc[p] \in {"done", "failed"} => pc'[p] = pc[p]

\* C21: within each recompute run the order is merchant resolution, clearing of
\* the derived state, series detection, event generation: every merchant
\* assignment is written before the clear, the clear precedes every series
\* insert, and every series row is persisted before any event is inserted.
RecomputePhasesInOrder == [][\A p \in Procs : StepOf(p) => PhaseOrderStep(p)]_vars

\* C21 witness: a run that found derived state to clear went through every
\* phase and left series and events behind
RunWentThroughAllPhases ==
    \E p \in Procs :
        /\ pc[p] = "done"
        /\ loc[p].series0 # {}
        /\ loc[p].events0 # {}
        /\ series # {}
        /\ events # {}


(***************************************************************************)
(* The statements page: statements are imported, recomputed and deleted    *)
(* again, each statement holding enough charges of a merchant for a series *)
(* to outlive the deletion of another statement.                           *)
(***************************************************************************)
\* bound of the model: the number of imports
MaxStatements == 3

\* three monthly charges of a merchant starting at day d
MonthlyStatement(d, description) ==
    [i \in 1..3 |-> [posted_at |-> Day(d + 30 * (i - 1)) + 720, amount |-> 9990,
                      description_raw |-> description]]

StatementFiles ==
    {MonthlyStatement(0, StrABCDEF), MonthlyStatement(90, StrABCDEF),
     MonthlyStatement(1, StrXYZ),
     <<[posted_at |-> Day(180) + 720, amount |-> 9990, description_raw |-> StrABCDEF],
       [posted_at |-> Day(180) + 840, amount |-> 9990, description_raw |-> StrABCDEF]>>}

\* cli.py cmd_import, the import button of pages/0_Statements.py for one file
ImportFile(rows) ==
    /\ obs.imports < MaxStatements
    /\ LET sfid == create_source_file(source_files)
           ins == insert_transactions(transactions, sfid, rows, NoKey)
           r == recompute(ins.transactions, merchants, aliases, series, events, now, NoKey)
       IN  /\ source_files' = source_files \cup {sfid}
           /\ RanRecompute(r, "import", ins, NoKey)
    /\ UNCHANGED <<settings, session_state, aliases, now, pc, loc>>

NextStatements ==
    \/ \E rows \in StatementFiles : ImportFile(rows)
    \/ CmdRecompute
    \/ \E sfid \in source_files : DeleteStatement(sfid)

InitStatements == Init /\ now = Day(200)

SpecStatements == InitStatements /\ [][NextStatements]_vars

\* id is NULL or the id of a row of table
RefersInto(id, table) == id = 0 \/ \E row \in table : row.id = id

\* t is the most recent transaction of merchant merchant_id
MostRecentOf(txns, merchant_id, t) ==
    /\ t.merchant_id = merchant_id
    /\ \A u \in txns : u.merchant_id = merchant_id => u.posted_at <= t.posted_at

\* C29: after every command (import, recompute, deletion of a statement, each
\* with the recompute it runs) every series row names an existing merchant and
\* an existing transaction, which is the most recent transaction of that
\* merchant, and every event's merchant, series and transaction reference is
\* NULL or names an existing row.
DerivedRowsReferToStoredRows ==
    /\ \A s \in series :
           /\ \E m \in merchants : m.id = s.merchant_id
           /\ \E t \in transactions :
                  t.id = s.last_txn_id /\ MostRecentOf(transactions, s.merchant_id, t)
    /\ \A e \in events :
           /\ RefersInto(e.merchant_id, merchants)
           /\ RefersInto(e.series_id, series)
           /\ RefersInto(e.txn_id, transactions)

\* C29 witness: a statement was deleted and the recompute that followed left a
\* series and an event that refers to it
SeriesLeftAfterDelete ==
    /\ obs.op = "delete"
    /\ series # {}
    /\ \E e \in events : e.series_id # 0 /\ e.txn_id # 0

(***************************************************************************)
(* The detectors of core/anomalies.py as functions: obs.call holds the     *)
(* rows a detector is given, obs.result the list it returns.               *)
(***************************************************************************)
\* bound of the model: the number of charges given to burst_small_charges
MaxBurst == 11

\* the minutes between two charges of a run
BurstSpacings == {0, 1, 7, 31}

\* a run of n charges s minutes apart, of 3.00 and 5.00 in turn with either
\* sign, the charge at position big (none when big = 0) being of 5.001
BurstRows(n, s, big) ==
    [i \in 1..n |->
        [txn_id |-> i, posted_at |-> Day(3) + 600 + s * (i - 1),
         amount |-> IF i = big THEN 5001 ELSE IF i % 2 = 1 THEN -3000 ELSE 5000,
         merchant |-> StrABCDEF]]

BurstCalls ==
    {<<"burst_small_charges", BurstRows(n, s, big)>> :
         n \in 4..MaxBurst, s \in BurstSpacings, big \in 0..3}
        \cup {<<"burst_small_charges", Reverse(BurstRows(n, s, big))>> :
                  n \in 4..MaxBurst, s \in BurstSpacings, big \in 0..3}

\* bound of the model: the number of distinct days given to daily_spike_anomalies
MaxSpikeDays == 63

\* the amount of the charge of day i of n: a level of about 5.00, a dip on the
\* 9th day, a spike on the 12th and on the last day; with shift the days before
\* the last 22 lie at about 20.00
SpikeAmount(i, n, shift) ==
    IF i = n \/ i = 12 THEN 12000
    ELSE IF i = 9 THEN 100
    ELSE (IF shift /\ i <= n - 22 THEN 20000 ELSE 5000) + 100 * (i % 3)

\* n days gap days apart with one charge each, and a refund of 0.20 later on
\* every fifth day
SpikeRows(n, gap, shift) ==
    [i \in 1..n |-> [txn_id |-> i, posted_at |-> Day(gap * (i - 1)) + 600,
                     amount |-> SpikeAmount(i, n, shift), merchant |-> StrABCDEF]]
        \o [k \in 1..(n \div 5) |-> [txn_id |-> n + k, posted_at |-> Day(gap * (5 * k - 1)) + 660,
                                     amount |-> -200, merchant |-> StrXYZ]]

SpikeCalls ==
    {<<"daily_spike_anomalies", SpikeRows(n, gap, shift)>> :
         n \in {13, 14, 15, 30, MaxSpikeDays - 1, MaxSpikeDays}, gap \in {1, 7},
         shift \in BOOLEAN}

\* bound of the model: the number of transactions of the largest merchant
MaxGroup == 82

\* the transactions of a ledger: n of merchant 1 with the amount out of line at
\* position pos of the rowid order (none when pos = 0), and extra without a
\* merchant, the first of them out of line; the later the rowid the later the date
GroupTransactions(n, pos, extra) ==
    {TxnRow(i, Day(i), IF i = pos THEN -40000 ELSE 10000 + 100 * (i % 3), StrABCDEF, 1, 1, i) :
         i \in 1..n}
        \cup {TxnRow(n + k, Day(k) + 60, IF k = 1 THEN 900 ELSE 5000 + 100 * (k % 3),
                     <<>>, 1, 0, n + k) : k \in 1..extra}

\* the merchant table of such a ledger
GroupMerchants == {[id |-> 1, canonical_name |-> StrABCDEF]}

MerchantCalls ==
    {<<"merchant_anomalies", AnomalyRows(GroupTransactions(n, pos, extra), GroupMerchants)>> :
         n \in {7, 8, 9, MaxGroup - 1, MaxGroup}, pos \in {0, 1, 2, 3, 7, 8},
         extra \in {0, 7, 8}}

DetectorCalls == BurstCalls \cup SpikeCalls \cup MerchantCalls

InitDetectors ==
    /\ source_files = {}
    /\ transactions = {}
    /\ merchants = {}
    /\ aliases = {}
    /\ series = {}
    /\ events = {}
    /\ settings = NoSettings
    /\ session_state = NoSession
    /\ now = Day(61)
    /\ pc = [p \in Procs |-> "idle"]
    /\ loc = [p \in Procs |-> <<>>]
    /\ obs \in {[NoObs EXCEPT !.op = "input", !.call = c] : c \in DetectorCalls}

\* engine.py line 186: burst_small_charges(rows)
CallBurstSmallCharges ==
    /\ obs.op = "input"
    /\ obs.call[1] = "burst_small_charges"
    /\ Returned(burst_small_charges(obs.call[2], 5 * MillsPerUnit, 30, 5))

\* engine.py line 177: daily_spike_anomalies(rows, spike_z=4.0)
CallDailySpikeAnomalies ==
    /\ obs.op = "input"
    /\ obs.call[1] = "daily_spike_anomalies"
    /\ Returned(daily_spike_anomalies(obs.call[2], 60, 4))

\* engine.py line 168: merchant_anomalies(rows, z_thresh=4.0)
CallMerchantAnomalies ==
    /\ obs.op = "input"
    /\ obs.call[1] = "merchant_anomalies"
    /\ Returned(merchant_anomalies(obs.call[2], 4))

NextDetectors ==
    \/ CallBurstSmallCharges
    \/ CallDailySpikeAnomalies
    \/ CallMerchantAnomalies

SpecDetectors == InitDetectors /\ [][NextDetectors]_vars

\* the charges among rows a..b of tx of absolute amount at most amount_max
SmallBetween(tx, a, b, amount_max) == {i \in a..b : Abs(tx[i].amount) <= amount_max}

\* the bursts from the k-th on are the windows of ranges of tx that lie one after
\* the other from index from on: each range starts and ends at the reported
\* times, at most window_minutes apart, and holds the reported count, at least
\* count_min, of small charges
RECURSIVE DisjointWindows(_, _, _, _)
DisjointWindows(tx, bursts, k, from) ==
    \/ k > Len(bursts)
    \/ \E a \in from..Len(tx) : \E b \in a..Len(tx) :
           /\ tx[a].posted_at = bursts[k].start
           /\ tx[b].posted_at = bursts[k].end
           /\ tx[b].posted_at - tx[a].posted_at <= 30
           /\ Cardinality(SmallBetween(tx, a, b, 5 * MillsPerUnit)) = bursts[k].count
           /\ bursts[k].count >= 5
           /\ DisjointWindows(tx, bursts, k + 1, b + 1)

\* C25: the bursts burst_small_charges returns are windows of the chronological
\* list that do not overlap (no transaction lies in two of them) and come in
\* chronological order; the first and the last transaction of each are at most
\* 30 minutes apart and each holds at least 5 transactions of absolute amount at
\* most 5.0.
BurstsDoNotOverlap ==
    obs.op = "burst_small_charges" =>
        /\ DisjointWindows(SortRowsByPostedAt(obs.call[2]), obs.result, 1, 1)
        /\ \A k \in 1..(Len(obs.result) - 1) : obs.result[k].end <= obs.result[k + 1].start

\* C25 witness: two bursts were returned for charges 7 minutes apart, one of
\* them above 5.0
TwoBurstsSeen ==
    /\ obs.op = "burst_small_charges"
    /\ Len(obs.result) >= 2
    /\ obs.result[1].end < obs.result[2].start
    /\ \E i \in 1..Len(obs.call[2]) : obs.call[2][i].amount > 5 * MillsPerUnit

\* every charge of rows is of absolute amount at most 5.0 and all lie within 30
\* minutes
OneWindowOfSmallCharges(rows) ==
    /\ \A i \in 1..Len(rows) : Abs(rows[i].amount) <= 5 * MillsPerUnit
    /\ \A i, j \in 1..Len(rows) : rows[i].posted_at - rows[j].posted_at <= 30

\* C30: every burst reports a count of exactly 5, and a run of n small charges
\* inside one window of 30 minutes is reported as n div 5 bursts of 5.
BurstCountIsCountMin ==
    obs.op = "burst_small_charges" =>
        /\ \A k \in 1..Len(obs.result) : obs.result[k].count = 5
        /\ OneWindowOfSmallCharges(obs.call[2]) => Len(obs.result) = Len(obs.call[2]) \div 5

\* C30 witness: more than 10 small charges inside one window came back as two
\* bursts
LongRunSplitInTwo ==
    /\ obs.op = "burst_small_charges"
    /\ OneWindowOfSmallCharges(obs.call[2])
    /\ Len(obs.call[2]) > 10
    /\ Len(obs.result) = 2

\* the distinct days of rows in chronological order
DistinctDays(rows) == SortedInts(RowsByValue({DayOf(rows[i].posted_at) : i \in 1..Len(rows)}))

\* the total of the absolute amounts of day d
DailyTotal(rows, d) == SumAbs(SelectSeq(rows, LAMBDA t : DayOf(t.posted_at) = d))

\* the daily totals, in chronological order, of the days of rows that strictly
\* precede day d and lie no more than window_days days before it
TrailingTotals(rows, d, window_days) ==
    LET before == SelectSeq(DistinctDays(rows), LAMBDA e : e < d /\ e >= d - window_days)
    IN  [k \in 1..Len(before) |-> DailyTotal(rows, before[k])]

\* day d is the 8th distinct day or a later one
FromEighthDay(rows, d) ==
    Cardinality({k \in 1..Len(DistinctDays(rows)) : DistinctDays(rows)[k] < d}) >= 7

\* the robust z-score of the total of day d against the totals of the trailing
\* window of window_days days is at least 4.0
SpikesOverTrailingWindow(rows, d, window_days) ==
    RobustZAtLeast(DailyTotal(rows, d), median(TrailingTotals(rows, d, window_days)),
                   mad(TrailingTotals(rows, d, window_days)), 4, MillsPerUnit)

\* the days daily_spike_anomalies is to flag
DaysToFlag(rows, window_days) ==
    {d \in {DayOf(rows[i].posted_at) : i \in 1..Len(rows)} :
        /\ Len(DistinctDays(rows)) >= 14
        /\ FromEighthDay(rows, d)
        /\ SpikesOverTrailingWindow(rows, d, window_days)}

\* C26: daily_spike_anomalies flags a day exactly when at least 14 distinct days
\* exist, the day is the 8th distinct day or a later one, and its robust z-score
\* is at least 4.0 against the baseline of the daily totals of the days that
\* strictly precede it and lie within the 60 days before it.
SpikeBaselineIsTrailingSixtyDays ==
    obs.op = "daily_spike_anomalies" =>
        /\ {obs.result[k].day : k \in 1..Len(obs.result)} = DaysToFlag(obs.call[2], 60)
        /\ Len(obs.result) = Cardinality(DaysToFlag(obs.call[2], 60))

\* the indices of the rows of the merchant group of row i, and those of them
\* that stand before row i in the input
GroupOf(rows, i) == {j \in 1..Len(rows) : rows[j].merchant = rows[i].merchant}

GroupBefore(rows, i) == {j \in GroupOf(rows, i) : j < i}

\* the absolute amounts of the merchant group of row i in input order
GroupAmounts(rows, i) ==
    LET group == SelectSeq(rows, LAMBDA r : r.merchant = rows[i].merchant)
    IN  [k \in 1..Len(group) |-> Abs(group[k].amount)]

\* the absolute robust z-score of the absolute amount of row i against the
\* median and MAD of its group is at least 4.0
OutOfLine(rows, i) ==
    AbsRobustZAtLeast(Abs(rows[i].amount), median(GroupAmounts(rows, i)),
                      mad(GroupAmounts(rows, i)), 4, MillsPerUnit)

\* the rows merchant_anomalies is to flag
RowsToFlag(rows) ==
    {i \in 1..Len(rows) : /\ Cardinality(GroupOf(rows, i)) >= 8
                          /\ Cardinality(GroupBefore(rows, i)) < 80
                          /\ OutOfLine(rows, i)}

\* C27: merchant_anomalies flags a transaction exactly when its merchant group
\* (the transactions without a merchant being the group UNKNOWN) has at least 8
\* rows, the transaction is among the first 80 rows of the group in input order,
\* and the absolute robust z-score of its absolute amount against the group's
\* median and MAD is at least 4.0; each such transaction is flagged once.
MerchantAnomalyFlags ==
    obs.op = "merchant_anomalies" =>
        /\ {obs.result[k].txn_id : k \in 1..Len(obs.result)}
               = {obs.call[2][i].txn_id : i \in RowsToFlag(obs.call[2])}
        /\ Len(obs.result) = Cardinality(RowsToFlag(obs.call[2]))
        /\ \A k \in 1..Len(obs.result) :
               \E i \in RowsToFlag(obs.call[2]) :
                   /\ obs.result[k].txn_id = obs.call[2][i].txn_id
                   /\ obs.result[k].merchant = obs.call[2][i].merchant

\* C27 witness: a group of more than 80 rows with an amount out of line past
\* the 80th row that was not flagged, while a row of the group UNKNOWN was
FlaggedWithinEightyOnly ==
    /\ obs.op = "merchant_anomalies"
    /\ \E i \in 1..Len(obs.call[2]) :
           /\ Cardinality(GroupBefore(obs.call[2], i)) >= 80
           /\ OutOfLine(obs.call[2], i)
           /\ \A k \in 1..Len(obs.result) : obs.result[k].txn_id # obs.call[2][i].txn_id
    /\ \E k \in 1..Len(obs.result) : obs.result[k].merchant = StrUNKNOWN
====
